---- MODULE Spec2Model ----
(***************************************************************************)
(* Model of deepinv's blur physics (deepinv/physics/blur/blur.py) and PSF  *)
(* generators (deepinv/physics/generator/blur.py).                         *)
(*                                                                         *)
(* Tensors are records [shape, data]: shape is the tuple of sizes and data *)
(* the elements in row-major (contiguous) order, so that reshape and view  *)
(* keep the data and only change the shape, as torch does.  Pixel values   *)
(* are integers; a kernel of quarters is written in units of 1/4.          *)
(* A function that can raise returns a record [ok, err, val].              *)
(***************************************************************************)
EXTENDS Integers, Sequences, FiniteSets, TLC

VARIABLES
    pc,        \* position of the driver: which call was made last
    x,         \* image handed to conv or to the operator
    filter,    \* kernel handed to conv and conv_transpose, or to the constructor
    padding,   \* padding policy name
    out,       \* what conv(x, filter, padding) or operator.A(x) returned or raised
    y,         \* tensor handed to conv_transpose or to operator.A_adjoint
    adj,       \* what conv_transpose or operator.A_adjoint returned or raised
    fout,      \* what the BlurFFT built from filter returned or raised for x
    args,      \* the class constructed and the constructor's other arguments
    params,    \* the constructor's params argument, a Python value
    made,      \* whether the constructor returned, and what it raised
    self,      \* the constructed operator or generator: class and attributes
    calls,     \* number of step() calls made on the generator
    draw,      \* the random draw of the last step() call
    psf,       \* what the last step() call returned or raised
    inv,       \* what operator.A_dagger returned or raised
    rng,       \* state of torch's global random number generator
    log,       \* the step() calls completed so far, for comparing them
    threads,   \* the step() calls in progress on one generator, one per thread
    placed,    \* the array filter_fft transforms: what it built or raised
    heap       \* the storages of the tensors that calls in progress hold, by name

engineVars == <<x, filter, padding, out, y, adj, fout>>

objectVars == <<args, params, made, self, calls, draw, psf>>

callVars == <<inv, rng, log, threads, placed, heap>>

vars == <<pc, x, filter, padding, out, y, adj, fout, args, params, made, self, calls, draw, psf,
          inv, rng, log, threads, placed, heap>>

----------------------------------------------------------------------------
(* Tensors and results *)

NoTensor == [shape |-> <<>>, data |-> <<>>]

Ok(t) == [ok |-> TRUE, err |-> "", val |-> t]

Raise(e) == [ok |-> FALSE, err |-> e, val |-> NoTensor]

NoResult == [ok |-> FALSE, err |-> "not called", val |-> NoTensor]

Dim(t) == Len(t.shape)

\* element (b, c, i, j) of a 4D tensor, indices from 0
At(t, b, c, i, j) ==
    t.data[((b * t.shape[2] + c) * t.shape[3] + i) * t.shape[4] + j + 1]

\* the contiguous 4D tensor of shape (B, C, H, W) whose element (b,c,i,j) is f(b,c,i,j)
Tensor4(B, C, H, W, f(_, _, _, _)) ==
    [shape |-> <<B, C, H, W>>,
     data  |-> [n \in 1..(B * C * H * W) |->
                  LET m == n - 1
                  IN  f(m \div (C * H * W), (m \div (H * W)) % C, (m \div W) % H, m % W)]]

\* tensor.reshape / tensor.view on a contiguous tensor: same data, new shape
Reshape(t, shape) == [shape |-> shape, data |-> t.data]

\* an expand that lays a broadcast batch out channel by channel, as
\* repeat_interleave would, instead of batch by batch
ExpandInterleaved(t, B, C) ==
    Tensor4(B, C, t.shape[3], t.shape[4],
            LAMBDA b, c, i, j:
                At(t, IF t.shape[1] = 1 THEN 0 ELSE b,
                      IF t.shape[2] = 1 THEN 0
                      ELSE IF t.shape[1] = 1 THEN (b * C + c) \div B ELSE c, i, j))

\* tensor.expand(B, C, -1, -1): a dimension of size 1 is read again for every index
Expand(t, B, C) ==
    Tensor4(B, C, t.shape[3], t.shape[4],
            LAMBDA b, c, i, j:
                At(t, IF t.shape[1] = 1 THEN 0 ELSE b,
                      IF t.shape[2] = 1 THEN 0 ELSE c, i, j))

----------------------------------------------------------------------------
(* torch.nn.functional primitives used by the convolution engine *)

\* the padding modes torch.nn.functional.pad knows
TorchPadModes == {"constant", "reflect", "replicate", "circular"}

\* the source index that padded position i (0 .. n + 2p - 1) of F.pad reads,
\* or -1 where the padded value is the constant 0
PadSource(mode, i, n, p) ==
    LET t == i - p
    IN  CASE mode = "circular"  -> t % n
          [] mode = "reflect"   -> IF t < 0 THEN -t ELSE IF t >= n THEN 2 * (n - 1) - t ELSE t
          [] mode = "replicate" -> IF t < 0 THEN 0 ELSE IF t >= n THEN n - 1 ELSE t
          [] OTHER              -> IF t < 0 \/ t >= n THEN -1 ELSE t

\* F.pad(x, (pw, pw, ph, ph), mode=mode, value=0) on a 4D tensor: an unknown mode
\* raises, circular padding may wrap at most once, reflect needs pad < size
F_pad(t, pw, ph, mode) ==
    LET B == t.shape[1]
        C == t.shape[2]
        H == t.shape[3]
        W == t.shape[4]
    IN  IF mode \notin TorchPadModes THEN Raise("NotImplementedError")
        ELSE IF mode = "circular" /\ (ph > H \/ pw > W) THEN Raise("RuntimeError")
        ELSE IF mode = "reflect" /\ (ph >= H \/ pw >= W) THEN Raise("RuntimeError")
        ELSE Ok(Tensor4(B, C, H + 2 * ph, W + 2 * pw,
                        LAMBDA b, c, i, j:
                            LET si == PadSource(mode, i, H, ph)
                                sj == PadSource(mode, j, W, pw)
                            IN  IF si < 0 \/ sj < 0 THEN 0 ELSE At(t, b, c, si, sj)))

\* one output pixel of F.conv2d: the sum over the kernel entries 0 .. k (in
\* row-major order) of input times weight
RECURSIVE CorrSum(_, _, _, _, _, _)
CorrSum(t, weight, g, i, j, k) ==
    IF k < 0 THEN 0
    ELSE LET a == k \div weight.shape[4]
             b == k % weight.shape[4]
         IN  At(t, 0, g, i + a, j + b) * At(weight, g, 0, a, b)
             + CorrSum(t, weight, g, i, j, k - 1)

\* F.conv2d(x, weight, padding='valid', groups=G) for x of shape (1, G, H, W) and
\* weight of shape (G, 1, h, w): a cross-correlation per group; a kernel larger
\* than the input raises
F_conv2d(t, weight) ==
    LET G == t.shape[2]
        H == t.shape[3]
        W == t.shape[4]
        h == weight.shape[3]
        w == weight.shape[4]
    IN  IF h > H \/ w > W THEN Raise("RuntimeError")
        ELSE Ok(Tensor4(1, G, H - h + 1, W - w + 1,
                        LAMBDA n, g, i, j: CorrSum(t, weight, g, i, j, h * w - 1)))

\* one output pixel (m, l) of F.conv_transpose2d: the sum over the kernel entries
\* 0 .. k of the input pixel that entry carries to (m, l), times the weight
RECURSIVE ScatterSum(_, _, _, _, _, _)
ScatterSum(t, weight, g, m, l, k) ==
    IF k < 0 THEN 0
    ELSE LET a == k \div weight.shape[4]
             b == k % weight.shape[4]
         IN  (IF m - a >= 0 /\ m - a < t.shape[3] /\ l - b >= 0 /\ l - b < t.shape[4]
              THEN At(t, 0, g, m - a, l - b) * At(weight, g, 0, a, b)
              ELSE 0)
             + ScatterSum(t, weight, g, m, l, k - 1)

\* F.conv_transpose2d(y, weight, groups=G) for y of shape (1, G, H, W) and weight of
\* shape (G, 1, h, w): every y pixel spreads the kernel, output (H+h-1, W+w-1)
F_conv_transpose2d(t, weight) ==
    LET G == t.shape[2]
        H == t.shape[3]
        W == t.shape[4]
        h == weight.shape[3]
        w == weight.shape[4]
    IN  Tensor4(1, G, H + h - 1, W + w - 1,
                LAMBDA n, g, m, l: ScatterSum(t, weight, g, m, l, h * w - 1))

----------------------------------------------------------------------------
(* Python slicing and in-place addition on views *)

\* a slice bound as Python normalises it against a dimension of size n
SliceBound(n, v) ==
    IF v < 0 THEN (IF v + n < 0 THEN 0 ELSE v + n) ELSE IF v > n THEN n ELSE v

\* the indices selected by [lo:hi] on a dimension of size n (-0 is 0)
Slice(n, lo, hi) ==
    LET a == SliceBound(n, lo)
        b == SliceBound(n, hi)
    IN  [k \in 1..(IF b > a THEN b - a ELSE 0) |-> a + k - 1]

\* [lo:] and [:hi]
SliceFrom(n, lo) == Slice(n, lo, n)

SliceTo(n, hi) == Slice(n, 0, hi)

\* the indices selected by the integer index k, empty when k is out of range
\* (IndexError)
Index(n, k) ==
    LET a == IF k < 0 THEN k + n ELSE k
    IN  IF a >= 0 /\ a < n THEN <<a>> ELSE <<>>

\* t[:, :, rows, cols] for index lists rows and cols
Sub(t, rows, cols) ==
    Tensor4(t.shape[1], t.shape[2], Len(rows), Len(cols),
            LAMBDA b, c, i, j: At(t, b, c, rows[i + 1], cols[j + 1]))

\* t.flip(dims=(2,)), t.flip(dims=(3,)) and t.flip(dims=(2, 3))
Flip2(t) ==
    Tensor4(t.shape[1], t.shape[2], t.shape[3], t.shape[4],
            LAMBDA b, c, i, j: At(t, b, c, t.shape[3] - 1 - i, j))

Flip3(t) ==
    Tensor4(t.shape[1], t.shape[2], t.shape[3], t.shape[4],
            LAMBDA b, c, i, j: At(t, b, c, i, t.shape[4] - 1 - j))

Flip23(t) == Flip3(Flip2(t))

\* the sum of rows 0 .. k of column j, and of columns 0 .. k of row i
RECURSIVE ColumnSum(_, _, _, _, _)
ColumnSum(t, b, c, j, k) ==
    IF k < 0 THEN 0 ELSE At(t, b, c, k, j) + ColumnSum(t, b, c, j, k - 1)

RECURSIVE RowSum(_, _, _, _, _)
RowSum(t, b, c, i, k) ==
    IF k < 0 THEN 0 ELSE At(t, b, c, i, k) + RowSum(t, b, c, i, k - 1)

\* t.sum(2) and t.sum(3), kept here as a dimension of size 1
Sum2(t) ==
    Tensor4(t.shape[1], t.shape[2], 1, t.shape[4],
            LAMBDA b, c, i, j: ColumnSum(t, b, c, j, t.shape[3] - 1))

Sum3(t) ==
    Tensor4(t.shape[1], t.shape[2], t.shape[3], 1,
            LAMBDA b, c, i, j: RowSum(t, b, c, i, t.shape[4] - 1))

\* o[:, :, rows, cols] += rhs on a result o: the right-hand side must broadcast
\* to the shape of the left-hand view, else the addition raises; a failed o stays
\* failed
IAdd(o, rows, cols, rhs) ==
    IF ~o.ok THEN o
    ELSE IF ~((rhs.shape[3] = Len(rows) \/ rhs.shape[3] = 1)
              /\ (rhs.shape[4] = Len(cols) \/ rhs.shape[4] = 1))
    THEN Raise("RuntimeError")
    ELSE LET t == o.val
         IN  Ok(Tensor4(t.shape[1], t.shape[2], t.shape[3], t.shape[4],
                 LAMBDA b, c, i, j:
                     IF Len(rows) > 0 /\ Len(cols) > 0
                        /\ i >= rows[1] /\ i <= rows[Len(rows)]
                        /\ j >= cols[1] /\ j <= cols[Len(cols)]
                     THEN At(t, b, c, i, j)
                          + At(rhs, b, c,
                               IF rhs.shape[3] = 1 THEN 0 ELSE i - rows[1],
                               IF rhs.shape[4] = 1 THEN 0 ELSE j - cols[1])
                     ELSE At(t, b, c, i, j)))

\* o[:, :, k, cols] += rhs and o[:, :, rows, k] += rhs and o[:, :, k, l] += rhs with
\* integer indices: an index out of range raises IndexError
IAddRow(o, k, cols, rhs) ==
    IF ~o.ok THEN o
    ELSE IF Index(o.val.shape[3], k) = <<>> THEN Raise("IndexError")
    ELSE IAdd(o, Index(o.val.shape[3], k), cols, rhs)

IAddCol(o, rows, l, rhs) ==
    IF ~o.ok THEN o
    ELSE IF Index(o.val.shape[4], l) = <<>> THEN Raise("IndexError")
    ELSE IAdd(o, rows, Index(o.val.shape[4], l), rhs)

IAddPixel(o, k, l, rhs) ==
    IF ~o.ok THEN o
    ELSE IF Index(o.val.shape[3], k) = <<>> \/ Index(o.val.shape[4], l) = <<>>
    THEN Raise("IndexError")
    ELSE IAdd(o, Index(o.val.shape[3], k), Index(o.val.shape[4], l), rhs)

----------------------------------------------------------------------------
(* The convolution engine: conv and conv_transpose *)

\* int((h - 1) / 2)
HalfWidth(h) == (h - 1) \div 2

\* an extension that puts the row and column added to an even dimension in front
\* of the kernel, not behind it
extend_filter_leading(f) ==
    LET h == f.shape[3]
        w == f.shape[4]
        w_new == IF w = 1 THEN 3 ELSE IF w % 2 = 0 THEN w + 1 ELSE w
        h_new == IF h = 1 THEN 3 ELSE IF h % 2 = 0 THEN h + 1 ELSE h
        offset_w == IF w = 1 \/ w % 2 = 0 THEN 1 ELSE 0
        offset_h == IF h = 1 \/ h % 2 = 0 THEN 1 ELSE 0
    IN  Tensor4(f.shape[1], f.shape[2], h_new, w_new,
                LAMBDA n, m, i, j:
                    IF i >= offset_h /\ i < h + offset_h /\ j >= offset_w /\ j < w + offset_w
                    THEN At(f, n, m, i - offset_h, j - offset_w)
                    ELSE 0)

\* extend_filter: a kernel dimension of 1 becomes 3 (kernel at offset 1), an even
\* dimension grows by one (kernel at offset 0), zeros elsewhere
extend_filter(f) ==
    LET b == f.shape[1]
        c == f.shape[2]
        h == f.shape[3]
        w == f.shape[4]
        w_new == IF w = 1 THEN 3 ELSE IF w % 2 = 0 THEN w + 1 ELSE w
        h_new == IF h = 1 THEN 3 ELSE IF h % 2 = 0 THEN h + 1 ELSE h
        offset_w == IF w = 1 THEN 1 ELSE 0
        offset_h == IF h = 1 THEN 1 ELSE 0
    IN  Tensor4(b, c, h_new, w_new,
                LAMBDA n, m, i, j:
                    IF i >= offset_h /\ i < h + offset_h /\ j >= offset_w /\ j < w + offset_w
                    THEN At(f, n, m, i - offset_h, j - offset_w)
                    ELSE 0)

\* the kernel after the channel and batch broadcast of conv / conv_transpose,
\* reshaped to (B * C, 1, h, w); the asserts on a count that is neither 1 nor
\* the image's count are made by the callers before this is used
BroadcastKernel(f, B, C) ==
    Reshape(Expand(f, B, C), <<B * C, 1, f.shape[3], f.shape[4]>>)

\* conv(x, filter, padding)
conv(t, f, pad) ==
    IF ~(Dim(t) = 4 /\ Dim(f) = 4) THEN Raise("AssertionError")
    ELSE
    LET k == f
        B == t.shape[1]
        C == t.shape[2]
        b == k.shape[1]
        c == k.shape[2]
        h == k.shape[3]
        w == k.shape[4]
    IN  IF c # C /\ c # 1 THEN Raise("AssertionError")
        ELSE IF b # B /\ b # 1 THEN Raise("AssertionError")
        ELSE
        LET padded == IF pad # "valid"
                      THEN F_pad(t, HalfWidth(w), HalfWidth(h), pad)
                      ELSE Ok(t)
        IN  IF ~padded.ok THEN padded
            ELSE
            LET xp == padded.val
                r == F_conv2d(Reshape(xp, <<1, B * C, xp.shape[3], xp.shape[4]>>),
                              BroadcastKernel(k, B, C))
            IN  IF ~r.ok THEN r
                ELSE Ok(Reshape(r.val, <<B, C, r.val.shape[3], r.val.shape[4]>>))

\* the branch of conv_transpose for padding == "circular": crop the interior, add
\* the halo strips and corners onto the opposite edges
FoldCircular(X, ph, pw) ==
    LET Hf == X.shape[3]
        Wf == X.shape[4]
        o0 == Ok(Sub(X, Slice(Hf, ph, -ph), Slice(Wf, pw, -pw)))
        Ho == o0.val.shape[3]
        Wo == o0.val.shape[4]
        all_r == SliceFrom(Ho, 0)
        all_c == SliceFrom(Wo, 0)
        o1 == IAdd(o0, SliceTo(Ho, ph), all_c, Sub(X, SliceFrom(Hf, -ph), Slice(Wf, pw, -pw)))
        o2 == IAdd(o1, SliceFrom(Ho, -ph), all_c, Sub(X, SliceTo(Hf, ph), Slice(Wf, pw, -pw)))
        o3 == IAdd(o2, all_r, SliceTo(Wo, pw), Sub(X, Slice(Hf, ph, -ph), SliceFrom(Wf, -pw)))
        o4 == IAdd(o3, all_r, SliceFrom(Wo, -pw), Sub(X, Slice(Hf, ph, -ph), SliceTo(Wf, pw)))
        o5 == IAdd(o4, SliceTo(Ho, ph), SliceTo(Wo, pw), Sub(X, SliceFrom(Hf, -ph), SliceFrom(Wf, -pw)))
        o6 == IAdd(o5, SliceFrom(Ho, -ph), SliceFrom(Wo, -pw), Sub(X, SliceTo(Hf, ph), SliceTo(Wf, pw)))
        o7 == IAdd(o6, SliceTo(Ho, ph), SliceFrom(Wo, -pw), Sub(X, SliceFrom(Hf, -ph), SliceTo(Wf, pw)))
        o8 == IAdd(o7, SliceFrom(Ho, -ph), SliceTo(Wo, pw), Sub(X, SliceTo(Hf, ph), SliceFrom(Wf, -pw)))
    IN  o8

\* the branch for padding == "reflect": add the flipped halo strips and corners
\* one pixel inside the edge they were mirrored from
FoldReflect(X, ph, pw) ==
    LET Hf == X.shape[3]
        Wf == X.shape[4]
        o0 == Ok(Sub(X, Slice(Hf, ph, -ph), Slice(Wf, pw, -pw)))
        Ho == o0.val.shape[3]
        Wo == o0.val.shape[4]
        all_r == SliceFrom(Ho, 0)
        all_c == SliceFrom(Wo, 0)
        top_r == Slice(Ho, 1, 1 + ph)
        bot_r == Slice(Ho, -ph - 1, -1)
        lef_c == Slice(Wo, 1, 1 + pw)
        rig_c == Slice(Wo, -pw - 1, -1)
        o1 == IAdd(o0, top_r, all_c, Flip2(Sub(X, SliceTo(Hf, ph), Slice(Wf, pw, -pw))))
        o2 == IAdd(o1, bot_r, all_c, Flip2(Sub(X, SliceFrom(Hf, -ph), Slice(Wf, pw, -pw))))
        o3 == IAdd(o2, all_r, lef_c, Flip3(Sub(X, Slice(Hf, ph, -ph), SliceTo(Wf, pw))))
        o4 == IAdd(o3, all_r, rig_c, Flip3(Sub(X, Slice(Hf, ph, -ph), SliceFrom(Wf, -pw))))
        o5 == IAdd(o4, top_r, lef_c, Flip23(Sub(X, SliceTo(Hf, ph), SliceTo(Wf, pw))))
        o6 == IAdd(o5, bot_r, rig_c, Flip23(Sub(X, SliceFrom(Hf, -ph), SliceFrom(Wf, -pw))))
        o7 == IAdd(o6, bot_r, lef_c, Flip23(Sub(X, SliceFrom(Hf, -ph), SliceTo(Wf, pw))))
        o8 == IAdd(o7, top_r, rig_c, Flip23(Sub(X, SliceTo(Hf, ph), SliceFrom(Wf, -pw))))
    IN  o8

\* the branch for padding == "replicate": add the sum of every halo strip and
\* corner onto the edge row, column or pixel it was replicated from
FoldReplicate(X, ph, pw) ==
    LET Hf == X.shape[3]
        Wf == X.shape[4]
        o0 == Ok(Sub(X, Slice(Hf, ph, -ph), Slice(Wf, pw, -pw)))
        Ho == o0.val.shape[3]
        Wo == o0.val.shape[4]
        all_r == SliceFrom(Ho, 0)
        all_c == SliceFrom(Wo, 0)
        o1 == IAddRow(o0, 0, all_c, Sum2(Sub(X, SliceTo(Hf, ph), Slice(Wf, pw, -pw))))
        o2 == IAddRow(o1, -1, all_c, Sum2(Sub(X, SliceFrom(Hf, -ph), Slice(Wf, pw, -pw))))
        o3 == IAddCol(o2, all_r, 0, Sum3(Sub(X, Slice(Hf, ph, -ph), SliceTo(Wf, pw))))
        o4 == IAddCol(o3, all_r, -1, Sum3(Sub(X, Slice(Hf, ph, -ph), SliceFrom(Wf, -pw))))
        o5 == IAddPixel(o4, 0, 0, Sum2(Sum3(Sub(X, SliceTo(Hf, ph), SliceTo(Wf, pw)))))
        o6 == IAddPixel(o5, -1, -1, Sum2(Sum3(Sub(X, SliceFrom(Hf, -ph), SliceFrom(Wf, -pw)))))
        o7 == IAddPixel(o6, -1, 0, Sum2(Sum3(Sub(X, SliceFrom(Hf, -ph), SliceTo(Wf, pw)))))
        o8 == IAddPixel(o7, 0, -1, Sum2(Sum3(Sub(X, SliceTo(Hf, ph), SliceFrom(Wf, -pw)))))
    IN  o8

\* the if / elif chain on padding at the end of conv_transpose; a name no branch
\* matches leaves `out` unbound and `return out` raises
FoldBoundary(X, ph, pw, pad) ==
    CASE pad = "valid"     -> Ok(X)
      [] pad = "zero"      -> Ok(Sub(X, Slice(X.shape[3], ph, -ph), Slice(X.shape[4], pw, -pw)))
      [] pad = "circular"  -> FoldCircular(X, ph, pw)
      [] pad = "reflect"   -> FoldReflect(X, ph, pw)
      [] pad = "replicate" -> FoldReplicate(X, ph, pw)
      [] OTHER             -> Raise("UnboundLocalError")

\* conv_transpose(y, filter, padding)
conv_transpose(t, f, pad) ==
    IF ~(Dim(t) = 4 /\ Dim(f) = 4) THEN Raise("AssertionError")
    ELSE
    LET k == f
        B == t.shape[1]
        C == t.shape[2]
        H == t.shape[3]
        W == t.shape[4]
        b == k.shape[1]
        c == k.shape[2]
        h == k.shape[3]
        w == k.shape[4]
    IN  IF c # C /\ c # 1 THEN Raise("AssertionError")
        ELSE IF b # B /\ b # 1 THEN Raise("AssertionError")
        ELSE
        LET full == F_conv_transpose2d(Reshape(t, <<1, B * C, H, W>>),
                                       BroadcastKernel(k, B, C))
            X == Reshape(full, <<B, C, full.shape[3], full.shape[4]>>)
        IN  FoldBoundary(X, HalfWidth(h), HalfWidth(w), pad)

----------------------------------------------------------------------------
(* The FFT blur: filter_fft and BlurFFT *)

\* params.repeat(nb, nc, 1, 1)
Repeat(t, nb, nc) ==
    Tensor4(t.shape[1] * nb, t.shape[2] * nc, t.shape[3], t.shape[4],
            LAMBDA b, c, i, j: At(t, b % t.shape[1], c % t.shape[2], i, j))

\* a roll against the shifts: element (i, j) moves to ((i - sh) mod H, (j - sw) mod W)
RollAgainst(t, sh, sw) ==
    Tensor4(t.shape[1], t.shape[2], t.shape[3], t.shape[4],
            LAMBDA b, c, i, j:
                At(t, b, c, (i + sh) % t.shape[3], (j + sw) % t.shape[4]))

\* torch.roll(t, shifts=(sh, sw), dims=(2, 3)): element (i, j) moves to
\* ((i + sh) mod H, (j + sw) mod W)
Roll(t, sh, sw) ==
    Tensor4(t.shape[1], t.shape[2], t.shape[3], t.shape[4],
            LAMBDA b, c, i, j:
                At(t, b, c, (i - sh) % t.shape[3], (j - sw) % t.shape[4]))

\* filter_fft up to the transform: the kernel written into the top-left corner of
\* a zero array of the image's spatial size (this raises when the kernel is
\* larger than the image), then rolled by (-ph, -pw)
filter_fft_spatial(f, H, W) ==
    LET h == f.shape[3]
        w == f.shape[4]
        filt2 == Tensor4(f.shape[1], f.shape[2], H, W,
                         LAMBDA b, c, i, j:
                             IF i < h /\ j < w THEN At(f, b, c, i, j) ELSE 0)
    IN  IF h > H \/ w > W THEN Raise("RuntimeError")
        ELSE Ok(Roll(filt2, -HalfWidth(h), -HalfWidth(w)))

\* the size two dimensions of sizes m and n broadcast to, 0 when they do not
BroadcastSize(m, n) == IF m = n THEN m ELSE IF m = 1 THEN n ELSE IF n = 1 THEN m ELSE 0

\* one row of a pixel of the circular cross-correlation of plane (bt, ct) of t
\* with plane (bf, cf) of filt2: the sum over the entries 0 .. l of row m of filt2
RECURSIVE CircularCorrRow(_, _, _, _, _, _, _, _, _, _)
CircularCorrRow(t, filt2, bt, ct, bf, cf, i, j, m, l) ==
    IF l < 0 THEN 0
    ELSE At(filt2, bf, cf, m, l)
         * At(t, bt, ct, (i + m) % t.shape[3], (j + l) % t.shape[4])
         + CircularCorrRow(t, filt2, bt, ct, bf, cf, i, j, m, l - 1)

\* one pixel of the circular cross-correlation of plane (bt, ct) of t with plane
\* (bf, cf) of filt2: the sum over the rows 0 .. m of filt2
RECURSIVE CircularCorrSum(_, _, _, _, _, _, _, _, _)
CircularCorrSum(t, filt2, bt, ct, bf, cf, i, j, m) ==
    IF m < 0 THEN 0
    ELSE CircularCorrRow(t, filt2, bt, ct, bf, cf, i, j, m, filt2.shape[4] - 1)
         + CircularCorrSum(t, filt2, bt, ct, bf, cf, i, j, m - 1)

\* U(mask * V_adjoint(x)) of BlurFFT: rfft2(x) is multiplied by |F| (mask) and by
\* exp(-i angle(F)) (self.angle), that is by conj(F), and transformed back; by the
\* correlation theorem of the DFT this is the circular cross-correlation of x
\* with the array F is the transform of.  Batch and channel counts of the image
\* and of the response broadcast as torch multiplies them.
FreqMultiply(t, filt2) ==
    LET H == t.shape[3]
        W == t.shape[4]
        Bo == BroadcastSize(t.shape[1], filt2.shape[1])
        Co == BroadcastSize(t.shape[2], filt2.shape[2])
    IN  IF Bo = 0 \/ Co = 0 THEN Raise("RuntimeError")
        ELSE Ok(Tensor4(Bo, Co, H, W,
                 LAMBDA b, c, i, j:
                     CircularCorrSum(t, filt2,
                                     IF t.shape[1] = 1 THEN 0 ELSE b,
                                     IF t.shape[2] = 1 THEN 0 ELSE c,
                                     IF filt2.shape[1] = 1 THEN 0 ELSE b,
                                     IF filt2.shape[2] = 1 THEN 0 ELSE c,
                                     i, j, H - 1)))

\* BlurFFT(img_size = x.shape[1:], params = f).A(x) for 4D x and f: the
\* constructor repeats a kernel with fewer channels than the image over the
\* channels and takes filter_fft of it
BlurFFT_A(t, f) ==
    LET repeated == IF t.shape[2] > f.shape[2] THEN Repeat(f, 1, t.shape[2]) ELSE f
        F == filter_fft_spatial(repeated, t.shape[3], t.shape[4])
    IN  IF ~F.ok THEN F ELSE FreqMultiply(t, F.val)

----------------------------------------------------------------------------
(* Python values and objects *)

PyNone == [kind |-> "NoneType"]

PyStr(s) == [kind |-> "str", s |-> s]

PyInt(n) == [kind |-> "int", n |-> n]

\* a float given as a fraction
PyFloat(num, den) == [kind |-> "float", num |-> num, den |-> den]

PyTuple(items) == [kind |-> "tuple", items |-> items]

PyList(items) == [kind |-> "list", items |-> items]

PyTensor(t) == [kind |-> "Tensor", t |-> t]

\* torch.nn.Parameter(t, requires_grad=False)
Parameter(t) == [kind |-> "Parameter", t |-> t]

\* isinstance(v, torch.Tensor): a Parameter is a Tensor too
isinstance_Tensor(v) == v.kind \in {"Tensor", "Parameter"}

isinstance_Parameter(v) == v.kind = "Parameter"

\* an object is its class and the attributes set on it so far
NoObject == [cls |-> "NoneType", attrs |-> <<>>]

hasattr(o, name) == name \in DOMAIN o.attrs

getattr(o, name) == o.attrs[name]

setattr(o, name, v) == [o EXCEPT !.attrs = (name :> v) @@ @]

\* how a call ended, without the value it returned
Outcome(r) == [ok |-> r.ok, err |-> r.err]

\* seq[-k] of Python, for 1 <= k <= len(seq)
FromEnd(seq, k) == seq[Len(seq) - k + 1]

Abs(n) == IF n < 0 THEN -n ELSE n

Max(m, n) == IF m < n THEN n ELSE m

Min(m, n) == IF m < n THEN m ELSE n

----------------------------------------------------------------------------
(* The filters of Downsampling *)

\* the value 1.0 of the fixed-point numbers the Gaussian filter is written in
FixedOne == 256

\* exp(-1/d) in fixed point: the series 1 - 1/d + 1/(2 d^2) - 1/(6 d^3) + 1/(24 d^4)
ExpNegUnit(d) ==
    FixedOne - FixedOne \div d + FixedOne \div (2 * d * d)
    - FixedOne \div (6 * d * d * d) + FixedOne \div (24 * d * d * d * d)

\* exp(-n/d) in fixed point, for n >= 0, by repeated squaring
RECURSIVE ExpNeg(_, _)
ExpNeg(n, d) ==
    IF n = 0 THEN FixedOne
    ELSE LET half == ExpNeg(n \div 2, d)
             square == (half * half) \div FixedOne
         IN  IF n % 2 = 0 THEN square
             ELSE (square * ExpNegUnit(d)) \div FixedOne

\* gaussian_blur(sigma=(sigma, sigma), angle=0) for an integer sigma: the filter
\* of size 2c + 1 with c = int(sigma / 0.3 + 1) and entries
\* exp(-((x/sigma)^2 + (y/sigma)^2) / 2); a rotation by angle 0 keeps it.  The
\* entries are the numerators of the filter, their sum its denominator.
gaussian_blur(sigma) ==
    LET c == (10 * sigma) \div 3 + 1
        k_size == 2 * c + 1
    IN  Tensor4(1, 1, k_size, k_size,
                LAMBDA b, ch, i, j:
                    ExpNeg((i - c) * (i - c) + (j - c) * (j - c), 2 * sigma * sigma))

\* bilinear_filter(factor): w = 1 - |x| at the 2 factor points
\* x = (-factor + 0.5 + k) / factor, written 2 factor w; the filter is the outer
\* product of w with itself over its sum
bilinear_filter(factor) ==
    LET w(k) == 2 * factor - Abs(2 * k + 1 - 2 * factor)
    IN  Tensor4(1, 1, 2 * factor, 2 * factor, LAMBDA b, c, i, j: w(i) * w(j))

\* bicubic_filter(factor): the cubic kernel with a = -0.5 at the 4 factor points
\* x = |-2 factor + 0.5 + k| / factor = m / (2 factor), written 16 factor^3 w
bicubic_filter(factor) ==
    LET f == factor
        w(k) == LET m == Abs(2 * k + 1 - 4 * f)
                IN  IF m <= 2 * f
                    THEN 3 * m * m * m - 10 * f * m * m + 16 * f * f * f
                    ELSE IF m < 4 * f
                    THEN -(m * m * m) + 10 * f * m * m - 32 * f * f * m + 32 * f * f * f
                    ELSE 0
    IN  Tensor4(1, 1, 4 * factor, 4 * factor, LAMBDA b, c, i, j: w(i) * w(j))

----------------------------------------------------------------------------
(* The operators: Blur, Downsampling, BlindBlur *)

\* Physics.__init__(**kwargs) with no keyword argument: the operator carries no
\* noise model
Physics_init(cls) == [cls |-> cls, attrs |-> ("noise_model" :> PyNone)]

\* Blur.__init__(params, padding)
Blur_init(p, pad) ==
    LET s0 == Physics_init("Blur")
        s1 == setattr(s0, "padding", PyStr(pad))
        s2 == setattr(s1, "device", PyStr("cpu"))
        s3 == IF isinstance_Parameter(p) THEN setattr(s2, "params", p) ELSE s2
    IN  IF isinstance_Tensor(p)
        THEN IF hasattr(s3, "params")
             THEN Ok(setattr(s3, "params", Parameter(getattr(s3, "params").t)))
             ELSE Raise("AttributeError")
        ELSE Ok(s3)

\* Blur.A(x)
Blur_A(o, t) ==
    IF hasattr(o, "filter")
    THEN conv(t, getattr(o, "filter").t, getattr(o, "padding").s)
    ELSE Raise("AttributeError")

\* Blur.A_adjoint(y)
Blur_A_adjoint(o, t) ==
    IF hasattr(o, "filter")
    THEN conv_transpose(t, getattr(o, "filter").t, getattr(o, "padding").s)
    ELSE Raise("AttributeError")

\* torch.conj of a frequency response, as the array it is the transform of:
\* entry (i, j) moves to (-i mod H, -j mod W)
Conj(t) ==
    Tensor4(t.shape[1], t.shape[2], t.shape[3], t.shape[4],
            LAMBDA b, c, i, j:
                At(t, b, c, (-i) % t.shape[3], (-j) % t.shape[4]))

\* Downsampling.__init__(img_size, params, factor, padding).  The frequency
\* responses Fh, Fhc = conj(Fh) and Fh2 = Fhc * Fh are kept as the real arrays
\* they are the transforms of.
Downsampling_init(img_size, p, factor, pad) ==
    LET s0 == Physics_init("Downsampling")
        s1 == setattr(s0, "factor", PyInt(factor))
        s2 == setattr(s1, "imsize", PyTuple(img_size))
        s3 == setattr(s2, "padding", PyStr(pad))
        s4 == IF isinstance_Parameter(p) THEN setattr(s3, "params", p) ELSE s3
        s5 == IF isinstance_Tensor(p)
              THEN IF hasattr(s4, "params")
                   THEN Ok(setattr(s4, "params", Parameter(getattr(s4, "params").t)))
                   ELSE Raise("AttributeError")
              ELSE IF p.kind = "NoneType"
              THEN Ok(setattr(s4, "params", p))
              ELSE IF p = PyStr("gaussian")
              THEN Ok(setattr(s4, "params", Parameter(gaussian_blur(factor))))
              ELSE IF p = PyStr("bilinear")
              THEN Ok(setattr(s4, "params", Parameter(bilinear_filter(factor))))
              ELSE IF p = PyStr("bicubic")
              THEN Ok(setattr(s4, "params", Parameter(bicubic_filter(factor))))
              ELSE Raise("Exception")
    IN  IF ~s5.ok THEN s5
        ELSE IF getattr(s5.val, "params").kind = "NoneType" THEN s5
        ELSE LET Fh == filter_fft_spatial(getattr(s5.val, "params").t,
                                          FromEnd(img_size, 2), FromEnd(img_size, 1))
             IN  IF ~Fh.ok THEN Fh
                 ELSE LET Fhc == Conj(Fh.val)
                          Fh2 == FreqMultiply(Fh.val, Fh.val).val
                          s6 == setattr(s5.val, "Fh", PyTensor(Fh.val))
                          s7 == setattr(s6, "Fhc", Parameter(Fhc))
                      IN  Ok(setattr(s7, "Fh2", Parameter(Fh2)))

\* t[:, :, ::f, ::f]
Strided(t, f) ==
    Tensor4(t.shape[1], t.shape[2], (t.shape[3] + f - 1) \div f, (t.shape[4] + f - 1) \div f,
            LAMBDA b, c, i, j: At(t, b, c, i * f, j * f))

\* Downsampling.A(x)
Downsampling_A(o, t) ==
    LET p == getattr(o, "params")
        blurred == IF p.kind # "NoneType"
                   THEN conv(t, p.t, getattr(o, "padding").s)
                   ELSE Ok(t)
    IN  IF ~blurred.ok THEN blurred
        ELSE Ok(Strided(blurred.val, getattr(o, "factor").n))

\* x = torch.zeros((y.shape[0],) + imsize); x[:, :, ::f, ::f] = y, for a 4D y
\* and imsize = (C, H, W): y has to broadcast to the strided view
Upsampled(t, imsize, f) ==
    LET B == t.shape[1]
        C == imsize[1]
        H == imsize[2]
        W == imsize[3]
        fits(n, m) == n = m \/ n = 1
    IN  IF /\ fits(t.shape[2], C)
           /\ fits(t.shape[3], (H + f - 1) \div f)
           /\ fits(t.shape[4], (W + f - 1) \div f)
        THEN Ok(Tensor4(B, C, H, W,
                  LAMBDA b, c, i, j:
                      IF i % f = 0 /\ j % f = 0
                      THEN At(t, b,
                              IF t.shape[2] = 1 THEN 0 ELSE c,
                              IF t.shape[3] = 1 THEN 0 ELSE i \div f,
                              IF t.shape[4] = 1 THEN 0 ELSE j \div f)
                      ELSE 0))
        ELSE Raise("RuntimeError")

\* Downsampling.A_adjoint(y)
Downsampling_A_adjoint(o, t) ==
    LET p == getattr(o, "params")
        up == Upsampled(t, getattr(o, "imsize").items, getattr(o, "factor").n)
    IN  IF ~up.ok THEN up
        ELSE IF p.kind # "NoneType"
        THEN conv_transpose(up.val, p.t, getattr(o, "padding").s)
        ELSE up

\* BlindBlur.__init__(kernel_size, padding): the test "is not list or is not
\* tuple" holds for every kernel_size
BlindBlur_init(kernel_size, pad) ==
    LET s0 == Physics_init("BlindBlur")
        s1 == setattr(s0, "padding", PyStr(pad))
    IN  Ok(setattr(s1, "kernel_size", PyList(<<kernel_size, kernel_size>>)))

\* BlindBlur.A(s) for s = (x, w)
BlindBlur_A(o, s) == conv(s[1], s[2], getattr(o, "padding").s)

\* TensorList([x, w])
TensorList(t, w) == [kind |-> "TensorList", x |-> t, w |-> w]

\* BlindBlur.A_dagger(y) for a 4D y: kernel_size[0] / 2 is a TypeError unless
\* kernel_size[0] is a number
BlindBlur_A_dagger(o, t) ==
    LET ks == getattr(o, "kernel_size").items
    IN  IF ks[1].kind # "int" \/ ks[2].kind # "int" THEN Raise("TypeError")
        ELSE LET mid_h == ks[1].n \div 2
                 mid_w == ks[2].n \div 2
                 w == Tensor4(t.shape[1], 1, ks[1].n, ks[2].n,
                              LAMBDA b, c, i, j: IF i = mid_h /\ j = mid_w THEN 1 ELSE 0)
             IN  Ok(TensorList(t, w))

----------------------------------------------------------------------------
(* The PSF generators: DiffractionBlurGenerator and MotionBlurGenerator *)

\* a string as the sequence of its characters, where the code takes it apart
PyChars(chars) == [kind |-> "str", chars |-> chars]

DecimalDigits == <<"0", "1", "2", "3", "4", "5", "6", "7", "8", "9">>

IsDigit(ch) == \E d \in 1..10 : DecimalDigits[d] = ch

DigitValue(ch) == (CHOOSE d \in 1..10 : DecimalDigits[d] = ch) - 1

\* the number the first k characters of a string of digits write
RECURSIVE DigitsValue(_, _)
DigitsValue(chars, k) ==
    IF k = 0 THEN 0 ELSE 10 * DigitsValue(chars, k - 1) + DigitValue(chars[k])

\* int(s) for a string of letters and digits: a ValueError unless s is a
\* non-empty string of digits
int(chars) ==
    IF chars # <<>> /\ \A k \in 1..Len(chars) : IsDigit(chars[k])
    THEN [ok |-> TRUE, err |-> "", val |-> DigitsValue(chars, Len(chars))]
    ELSE [ok |-> FALSE, err |-> "ValueError", val |-> 0]

\* s[1:]
SliceFrom1(chars) == IF chars = <<>> THEN <<>> ELSE Tail(chars)

\* np.sort of a sequence of integers
RECURSIVE np_sort(_)
np_sort(seq) ==
    IF seq = <<>> THEN <<>>
    ELSE LET m == CHOOSE k \in 1..Len(seq) : \A l \in 1..Len(seq) : seq[k] <= seq[l]
         IN  <<seq[m]>> \o np_sort([k \in 1..(Len(seq) - 1) |->
                                        IF k < m THEN seq[k] ELSE seq[k + 1]])

\* list[k] of Python for a list held as a sequence: entry k + 1, a negative k
\* counting from the end
ListIndex(list, k) ==
    IF 0 <= k /\ k < Len(list) THEN [ok |-> TRUE, err |-> "", val |-> list[k + 1]]
    ELSE IF k < 0 /\ -k <= Len(list)
    THEN [ok |-> TRUE, err |-> "", val |-> list[Len(list) + k + 1]]
    ELSE [ok |-> FALSE, err |-> "IndexError", val |-> 0]

\* PhysicsGenerator.__init__(device, dtype, **kwargs): the factory arguments and
\* every keyword argument become attributes
PhysicsGenerator_init(cls, kwargs) ==
    [cls |-> cls, attrs |-> kwargs @@ ("factory_kwargs" :> PyStr("cpu, float32"))]

\* PSFGenerator.__init__(shape, **kwargs)
PSFGenerator_init(cls, shape, kwargs) ==
    LET s0 == PhysicsGenerator_init(cls, kwargs)
        s1 == setattr(s0, "shape", PyTuple(shape))
    IN  IF Len(shape) < 2 THEN Raise("IndexError")
        ELSE LET kh == FromEnd(shape, 2)
                 kw == FromEnd(shape, 1)
                 s2 == setattr(s1, "kernel_size", PyTuple(<<kh, kw>>))
                 dirac_mass == Tensor4(1, 1, kh, kw,
                                       LAMBDA b, c, i, j:
                                           IF i = kh \div 2 /\ j = kw \div 2 THEN 1 ELSE 0)
             IN  Ok(setattr(s2, "dirac_mass", PyTensor(dirac_mass)))

\* Z = [None for k in range(38)]: the length of the list of polynomials
ZernikeCount == 38

\* the list define_zernike returns.  A polynomial is written as its number in
\* the table of the docstring: Z[0] and Z[1] are both the piston Z1, Z[2] is the
\* x tilt Z2, ..., Z[37] is the tertiary spherical Z37.
define_zernike == [k \in 1..ZernikeCount |-> IF k = 1 THEN 1 ELSE k - 1]

\* the bound of the assert on the indices
MaxZernikeIndex == 38

\* DiffractionBlurGenerator.__init__(shape, list_param, pupil_size), fc being
\* 0.2.  The radius grid rho and the basis Z are kept as their size and, for Z,
\* the polynomial each plane holds.
DiffractionBlurGenerator_init(shape, list_param, pupil_size) ==
    LET kwargs == ("list_param" :> PyList(list_param))
                  @@ ("fc" :> PyFloat(1, 5))
                  @@ ("pupil_size" :> PyTuple(pupil_size))
        base == PSFGenerator_init("DiffractionBlurGenerator", shape, kwargs)
    IN  IF ~base.ok THEN base
        ELSE
        LET s1 == setattr(base.val, "list_param", PyList(list_param))
            ks == getattr(s1, "kernel_size").items
            given == getattr(s1, "pupil_size").items
            pupil == <<Max(given[1], ks[1]), Max(given[2], ks[2])>>
            s2 == setattr(s1, "pupil_size", PyTuple(pupil))
            s3 == setattr(s2, "rho", [kind |-> "grid", size |-> pupil])
            s4 == setattr(s3, "pad_pre",
                          PyTuple(<<(pupil[1] - ks[1] + 1) \div 2,
                                    (pupil[2] - ks[2] + 1) \div 2>>))
            s5 == setattr(s4, "pad_post",
                          PyTuple(<<(pupil[1] - ks[1]) \div 2,
                                    (pupil[2] - ks[2]) \div 2>>))
            parsed == [k \in 1..Len(list_param) |-> int(SliceFrom1(list_param[k].chars))]
        IN  IF \E k \in 1..Len(list_param) : ~parsed[k].ok THEN Raise("ValueError")
            ELSE
            LET index_params == np_sort([k \in 1..Len(list_param) |-> parsed[k].val])
                s6 == setattr(s5, "index_params", PyList(index_params))
                s7 == setattr(s6, "n_zernike", PyInt(Len(index_params)))
                polys == [k \in 1..Len(index_params) |->
                              ListIndex(define_zernike, index_params[k])]
            IN  IF index_params = <<>> THEN Raise("ValueError")
                ELSE IF index_params[Len(index_params)] > MaxZernikeIndex
                THEN Raise("AssertionError")
                ELSE IF \E k \in 1..Len(index_params) : ~polys[k].ok
                THEN Raise("IndexError")
                ELSE Ok(setattr(s7, "Z",
                                [kind |-> "basis", size |-> pupil,
                                 polys |-> [k \in 1..Len(index_params) |-> polys[k].val]]))

\* MotionBlurGenerator.__init__(shape, l, sigma, n_steps), l being 0.3 and
\* sigma 0.25
MotionBlurGenerator_init(shape, n_steps) ==
    PSFGenerator_init("MotionBlurGenerator", shape,
                      ("l" :> PyFloat(3, 10)) @@ ("sigma" :> PyFloat(1, 4))
                      @@ ("n_steps" :> PyInt(n_steps)))

\* a / s of two floats a >= 0 and s >= 0 held as integers: the fraction a / s,
\* which is the float nan when a = s = 0 and inf when only s = 0
TrueDivide(a, s) == [num |-> a, den |-> s]

IsFinite(v) == v.den # 0

\* the sum of the entries 0 .. k, in row-major order, of plane (b, c) of t
RECURSIVE EntriesSum(_, _, _, _)
EntriesSum(t, b, c, k) ==
    IF k < 0 THEN 0
    ELSE At(t, b, c, k \div t.shape[4], k % t.shape[4]) + EntriesSum(t, b, c, k - 1)

PlaneSum(t, b, c) == EntriesSum(t, b, c, t.shape[3] * t.shape[4] - 1)

\* t / torch.sum(t, dim=(-2, -1), keepdim=True)
Normalized(t) ==
    [shape |-> t.shape,
     data  |-> [n \in 1..Len(t.data) |->
                   LET m == n - 1
                       b == m \div (t.shape[2] * t.shape[3] * t.shape[4])
                       c == (m \div (t.shape[3] * t.shape[4])) % t.shape[2]
                   IN  TrueDivide(t.data[n], PlaneSum(t, b, c))]]

\* the result a step() call returns
FilterDict(t) == [kind |-> "dict", filter |-> t]

\* what a step() call did: what it returned or raised, and the generator after it
Stepped(r, o) == [res |-> r, obj |-> o]

\* DiffractionBlurGenerator.step(batch_size).  psf2 is the intensity
\* |fft2(pupil)|^2 of the drawn coefficients, of shape (batch_size, 1, P0, P1).
DiffractionBlurGenerator_step(o, batch_size, psf2) ==
    LET shape == getattr(o, "shape").items
    IN  IF Len(shape) < 3 THEN Stepped(Raise("IndexError"), o)
        ELSE
        LET s1 == setattr(o, "shape",
                          PyTuple(<<batch_size, FromEnd(shape, 3),
                                    FromEnd(shape, 2), FromEnd(shape, 1)>>))
        IN  \* generate_coeff reads self.max_zernike_amplitude
            IF ~hasattr(s1, "max_zernike_amplitude")
            THEN Stepped(Raise("AttributeError"), s1)
            ELSE
            LET pre == getattr(s1, "pad_pre").items
                post == getattr(s1, "pad_post").items
                pupil == getattr(s1, "pupil_size").items
            IN  \* pupil2, transposed to (B, P1, P0), times the indicator of shape (P0, P1)
                IF pupil[1] # pupil[2] /\ pupil[1] # 1 /\ pupil[2] # 1
                THEN Stepped(Raise("RuntimeError"), s1)
                ELSE
            LET psf3 == Sub(psf2, Slice(pupil[1], pre[1], pupil[1] - post[1]),
                                  Slice(pupil[2], pre[2], pupil[2] - post[2]))
                unit == Normalized(psf3)
                C == getattr(s1, "shape").items[2]
            IN  Stepped(Ok(FilterDict(
                    [shape |-> <<unit.shape[1], C, unit.shape[3], unit.shape[4]>>,
                     data  |-> [n \in 1..(unit.shape[1] * C * unit.shape[3] * unit.shape[4]) |->
                                   LET m == n - 1
                                       hw == unit.shape[3] * unit.shape[4]
                                   IN  unit.data[(m \div (C * hw)) * hw + (m % hw) + 1]]])),
                        s1)

\* the number of points f_matern returns: n_steps // (2 pi)
TrajectoryLength(n_steps) == (n_steps * 100000) \div 628318

\* histogramdd(trajectory, bins=[kh, kw], low=[-1, -1], upp=[1, 1]): the number
\* of points in each cell of the kh x kw grid over [-1, 1] x [-1, 1]; a point
\* outside the domain is in no cell.  The points are (px[k] / den, py[k] / den).
HistogramBin(num, den, bins) == Min(bins - 1, ((num + den) * bins) \div (2 * den))

InDomain(num, den) == -den <= num /\ num <= den

histogramdd(px, py, den, kh, kw) ==
    [i \in 0..(kh - 1) |-> [j \in 0..(kw - 1) |->
        Cardinality({k \in 1..Len(px) :
                        /\ InDomain(px[k], den) /\ InDomain(py[k], den)
                        /\ HistogramBin(px[k], den, kh) = i
                        /\ HistogramBin(py[k], den, kw) = j})]]

\* the sum of the entries of a sequence of integers
RECURSIVE SeqSum(_, _)
SeqSum(seq, k) == IF k = 0 THEN 0 ELSE seq[k] + SeqSum(seq, k - 1)

\* f - torch.mean(f, dim=1, keepdim=True) for one row f of n halves: the
\* numerators of the differences over the denominator 2 n
Demeaned(f) == [k \in 1..Len(f) |-> Len(f) * f[k] - SeqSum(f, Len(f))]

\* f_matern: of the signal irfft returns for the noise drawn, batch_size rows of
\* 2 (n_steps // 2) values, the first n_steps // (2 pi) of each row
f_matern(o, signal) ==
    [b \in 1..getattr(o, "shape").items[1] |->
        SubSeq(signal[b], 1, TrajectoryLength(getattr(o, "n_steps").n))]

\* the first statement of MotionBlurGenerator.step(batch_size): self.shape gets
\* the batch size
MotionBlurGenerator_step_shape(o, batch_size) ==
    LET shape == getattr(o, "shape").items
    IN  IF shape[1] = 1 /\ Len(shape) < 3
        THEN [ok |-> FALSE, err |-> "IndexError", val |-> o]
        ELSE [ok |-> TRUE, err |-> "",
              val |-> setattr(o, "shape",
                          PyTuple(IF shape[1] # 1
                                  THEN <<batch_size, 1, FromEnd(shape, 2), FromEnd(shape, 1)>>
                                  ELSE <<batch_size, FromEnd(shape, 3),
                                         FromEnd(shape, 2), FromEnd(shape, 1)>>))]

\* the statements of MotionBlurGenerator.step after the two calls of f_matern:
\* torch.cat of the de-meaned f_x and f_y, which have to agree in the number of
\* rows, one histogram per trajectory, and the division by the sums
MotionBlurGenerator_step_kernel(o, f_x, f_y) ==
    LET ks == getattr(o, "kernel_size").items
        kernels == [b \in 1..Len(f_x) |->
                       histogramdd(Demeaned(f_x[b]), Demeaned(f_y[b]),
                                   2 * Len(f_x[b]), ks[1], ks[2])]
        kernel == Tensor4(Len(f_x), 1, ks[1], ks[2],
                          LAMBDA b, c, i, j: kernels[b + 1][i][j])
    IN  IF Len(f_x) # Len(f_y) THEN Raise("RuntimeError")
        ELSE Ok(FilterDict(Normalized(kernel)))

\* MotionBlurGenerator.step(batch_size).  signal_x and signal_y are the signals
\* of the two calls of f_matern, their values written in halves.
MotionBlurGenerator_step(o, batch_size, signal_x, signal_y) ==
    LET s1 == MotionBlurGenerator_step_shape(o, batch_size)
    IN  IF ~s1.ok THEN Stepped(Raise(s1.err), o)
        ELSE Stepped(MotionBlurGenerator_step_kernel(s1.val, f_matern(s1.val, signal_x),
                                                     f_matern(s1.val, signal_y)),
                     s1.val)

----------------------------------------------------------------------------
(* Inputs of the convolution engine *)

\* largest image height and width
MaxSize == 3

\* largest kernel height and width
MaxKernel == 3

\* largest batch and channel count
MaxCount == 2

Paddings == {"valid", "circular", "reflect", "replicate"}

\* product of the entries of a shape
Numel(shape) ==
    LET P[k \in 0..Len(shape)] == IF k = 0 THEN 1 ELSE shape[k] * P[k - 1]
    IN  P[Len(shape)]

\* a tensor of the given shape with the distinct entries 1, 2, 3, ...
Ramp(shape) == [shape |-> shape, data |-> [n \in 1..Numel(shape) |-> n]]

\* a tensor of the given shape, zero but for a 1 at flat position n
Impulse(shape, n) ==
    [shape |-> shape, data |-> [m \in 1..Numel(shape) |-> IF m = n THEN 1 ELSE 0]]

\* single-plane images and kernels of every spatial size
PlaneImageShapes == {<<1, 1, H, W>> : H \in 1..MaxSize, W \in 1..MaxSize}

PlaneKernelShapes == {<<1, 1, h, w>> : h \in 1..MaxKernel, w \in 1..MaxKernel}

\* images and kernels of every batch and channel count, of the largest spatial
\* size, and tensors that lack the batch dimension
BatchImageShapes ==
    {<<B, C, MaxSize, MaxSize>> : B \in 1..MaxCount, C \in 1..MaxCount}
    \cup {<<C, MaxSize, MaxSize>> : C \in 1..MaxCount}

BatchKernelShapes ==
    {<<b, c, MaxKernel, MaxKernel>> : b \in 1..MaxCount, c \in 1..MaxCount}
    \cup {<<c, MaxKernel, MaxKernel>> : c \in 1..MaxCount}

\* the example of the Blur docstring: a 16x16 black image with one white pixel
\* at (8, 8) and the 2x2 averaging kernel, whose entries 1/4 are written 1
ExampleImage ==
    Tensor4(1, 1, 16, 16, LAMBDA b, c, i, j: IF i = 8 /\ j = 8 THEN 1 ELSE 0)

ExampleKernel == Tensor4(1, 1, 2, 2, LAMBDA b, c, i, j: 1)

\* the tensors conv_transpose is tried on: those of the shape conv returned
\* (every impulse for a single plane of at most MaxSize x MaxSize pixels)
AdjointInputs(shape) ==
    IF shape[1] * shape[2] = 1 /\ shape[3] <= MaxSize /\ shape[4] <= MaxSize
    THEN {Ramp(shape)} \cup {Impulse(shape, n) : n \in 1..Numel(shape)}
    ELSE {Ramp(shape), Impulse(shape, 1), Impulse(shape, Numel(shape))}

----------------------------------------------------------------------------
(* The driver of the convolution engine *)

\* the object variables where no object is constructed
NoObjectMade ==
    /\ args = [cls |-> "NoneType"]
    /\ params = PyNone
    /\ made = Outcome(NoResult)
    /\ self = NoObject
    /\ calls = 0
    /\ draw = PyNone
    /\ psf = NoResult

\* the variables of A_dagger and of the compared and interleaved step() calls
\* where no such call is made
NoCallMade ==
    /\ inv = NoResult
    /\ rng = PyNone
    /\ log = <<>>
    /\ threads = <<>>
    /\ placed = NoResult
    /\ heap = <<>>

InitConv ==
    /\ pc = "start"
    /\ \/ /\ padding \in Paddings
          /\ x \in {Ramp(s) : s \in PlaneImageShapes}
          /\ filter \in {Ramp(s) : s \in PlaneKernelShapes}
       \/ /\ padding \in Paddings
          /\ x \in {Ramp(s) : s \in BatchImageShapes}
          /\ filter \in {Ramp(s) : s \in BatchKernelShapes}
       \/ /\ padding = "circular"
          /\ x = ExampleImage
          /\ filter = ExampleKernel
    /\ out = NoResult
    /\ y = NoTensor
    /\ adj = NoResult
    /\ fout = NoResult
    /\ NoObjectMade
    /\ NoCallMade

\* y = conv(x, filter, padding)
CallConv ==
    /\ pc = "start"
    /\ out' = conv(x, filter, padding)
    /\ pc' = "conv"
    /\ UNCHANGED <<x, filter, padding, y, adj, fout, objectVars, callVars>>

\* conv_transpose(y, filter, padding) for a y of the shape conv returned
CallConvTranspose ==
    /\ pc = "conv"
    /\ out.ok
    /\ \E t \in AdjointInputs(out.val.shape) :
          /\ y' = t
          /\ adj' = conv_transpose(t, filter, padding)
    /\ pc' = "adjoint"
    /\ UNCHANGED <<x, filter, padding, out, fout, objectVars, callVars>>

\* BlurFFT(x.shape[1:], filter)(x), the FFT blur of the same image and kernel
CallBlurFFT ==
    /\ pc = "conv"
    /\ padding = "circular"
    /\ Dim(x) = 4 /\ Dim(filter) = 4
    /\ fout' = BlurFFT_A(x, filter)
    /\ pc' = "fft"
    /\ UNCHANGED <<x, filter, padding, out, y, adj, objectVars, callVars>>

NextConv == CallConv \/ CallConvTranspose \/ CallBlurFFT

SpecConv == InitConv /\ [][NextConv]_vars

----------------------------------------------------------------------------
(* Properties of the convolution engine *)

\* <s, t>: the sum of the products of the entries of two tensors of one shape
RECURSIVE DotTo(_, _, _)
DotTo(a, b, k) == IF k = 0 THEN 0 ELSE a[k] * b[k] + DotTo(a, b, k - 1)

Inner(s, t) == DotTo(s.data, t.data, Len(s.data))

\* the kernel f replicated to B batches and C channels where it has one
Replicated(f, B, C) ==
    Repeat(f, IF f.shape[1] = 1 THEN B ELSE 1, IF f.shape[2] = 1 THEN C ELSE 1)

\* image and kernel are 4D and the kernel's counts are 1 or the image's
ShapesAgree ==
    /\ Dim(x) = 4 /\ Dim(filter) = 4
    /\ filter.shape[2] \in {1, x.shape[2]}
    /\ filter.shape[1] \in {1, x.shape[1]}

\* the border a padding policy adds on each side of a dimension for a kernel of
\* size h, and whether F.pad accepts it on a dimension of size n
Border(pad, h) == IF pad = "valid" THEN 0 ELSE HalfWidth(h)

BorderFits(pad, h, n) ==
    CASE pad = "circular" -> HalfWidth(h) <= n
      [] pad = "reflect"  -> HalfWidth(h) < n
      [] OTHER            -> TRUE

\* the border can be added and the extended image is at least as large as the
\* kernel, in both dimensions
KernelFits ==
    /\ BorderFits(padding, filter.shape[3], x.shape[3])
    /\ BorderFits(padding, filter.shape[4], x.shape[4])
    /\ x.shape[3] + 2 * Border(padding, filter.shape[3]) >= filter.shape[3]
    /\ x.shape[4] + 2 * Border(padding, filter.shape[4]) >= filter.shape[4]

\* C1: conv_transpose(., k, pad) is the adjoint of conv(., k, pad) for every
\* padding policy and every kernel size: for y of the shape of conv(x, k, pad)
\* it returns a tensor of the shape of x with <conv(x), y> = <x, conv_transpose(y)>
C1_ConvTransposeIsAdjoint ==
    (pc = "adjoint" /\ padding \in Paddings)
    => /\ adj.ok
       /\ adj.val.shape = x.shape
       /\ Inner(out.val, y) = Inner(x, adj.val)

C4_BlurExample ==
    (pc # "start" /\ x = ExampleImage /\ filter = ExampleKernel /\ padding = "circular")
    => /\ out.ok
       /\ out.val = Tensor4(1, 1, 16, 16,
                            LAMBDA b, c, i, j:
                                IF i \in {7, 8} /\ j \in {7, 8} THEN 1 ELSE 0)

\* C5: for a kernel no larger than the image, odd or even, the FFT blur returns
\* pixel for pixel what conv(x, k, 'circular') returns
C5_FFTBlurAgreesWithConv ==
    (/\ pc = "fft"
     /\ ShapesAgree
     /\ filter.shape[3] <= x.shape[3]
     /\ filter.shape[4] <= x.shape[4])
    => /\ fout.ok
       /\ out.ok
       /\ fout.val = out.val

\* C6 as stated: conv raises and returns nothing when image or kernel is not 4D
\* or the kernel's channel or batch count is neither 1 nor the image's; in every
\* other case it succeeds and returns what it returns for the kernel replicated
\* to the image's counts
C6_ConvFailsOnlyOnBadShapes ==
    (pc # "start")
    => IF ShapesAgree
       THEN /\ out.ok
            /\ out = conv(x, Replicated(filter, x.shape[1], x.shape[2]), padding)
       ELSE ~out.ok /\ out.val = NoTensor

\* C6 as amended: in every other case in which the border can be added and the
\* extended image is at least as large as the kernel, conv succeeds and returns
\* what it returns for the replicated kernel
C6_ConvShapeContract ==
    (pc # "start")
    => /\ ~ShapesAgree => (~out.ok /\ out.val = NoTensor)
       /\ (ShapesAgree /\ KernelFits)
          => /\ out.ok
             /\ out = conv(x, Replicated(filter, x.shape[1], x.shape[2]), padding)

\* a kernel with one batch and one channel was broadcast over an image with
\* several of both, and conv returned
C6_BroadcastReached ==
    /\ pc = "conv"
    /\ out.ok
    /\ filter.shape[1] = 1 /\ x.shape[1] > 1
    /\ filter.shape[2] > 1 /\ filter.shape[2] = x.shape[2]

\* for kernels of odd size at least 3 in both dimensions conv_transpose is the
\* adjoint of conv under every padding policy
AdjointForOddKernels ==
    (/\ pc = "adjoint"
     /\ filter.shape[3] % 2 = 1 /\ filter.shape[3] >= 3
     /\ filter.shape[4] % 2 = 1 /\ filter.shape[4] >= 3)
    => /\ adj.ok
       /\ adj.val.shape = x.shape
       /\ Inner(out.val, y) = Inner(x, adj.val)

\* for kernels of odd size the FFT blur and conv(x, k, 'circular') agree
FFTBlurAgreesForOddKernels ==
    (/\ pc = "fft"
     /\ ShapesAgree
     /\ filter.shape[3] % 2 = 1 /\ filter.shape[3] <= x.shape[3]
     /\ filter.shape[4] % 2 = 1 /\ filter.shape[4] <= x.shape[4])
    => /\ fout.ok
       /\ out.ok
       /\ fout.val = out.val

\* C20: under circular padding the entries of conv_transpose(y, k, 'circular')
\* sum to what the entries of the full transpose convolution, the 'valid'
\* result, sum to, for every y and every kernel
C20_CircularFoldKeepsSum ==
    (pc = "adjoint" /\ padding = "circular")
    => /\ adj.ok
       /\ conv_transpose(y, filter, "valid").ok
       /\ SeqSum(adj.val.data, Len(adj.val.data))
          = LET full == conv_transpose(y, filter, "valid").val
            IN  SeqSum(full.data, Len(full.data))

\* for kernels of odd size at least 3 the circular fold keeps the sum
CircularFoldKeepsSumForOddKernels ==
    (/\ pc = "adjoint" /\ padding = "circular"
     /\ filter.shape[3] % 2 = 1 /\ filter.shape[3] >= 3
     /\ filter.shape[4] % 2 = 1 /\ filter.shape[4] >= 3)
    => /\ adj.ok
       /\ SeqSum(adj.val.data, Len(adj.val.data))
          = LET full == conv_transpose(y, filter, "valid").val
            IN  SeqSum(full.data, Len(full.data))

\* whether torch can add or multiply tensors of these 4D shapes
Broadcastable(s1, s2) ==
    \A d \in 1..4 : s1[d] = s2[d] \/ s1[d] = 1 \/ s2[d] = 1

\* whether torch.chunk(a, sf, dim) cuts a dimension of size n into pieces of one
\* size, which torch.stack and torch.cat of splits() need: the pieces have
\* ceil(n / sf) entries, the last one what is left
ChunksEqual(n, sf) == n % ((n + sf - 1) \div sf) = 0

\* what a proximal solve returns: the solver that ran and the shape of its value
ProxValue(solver, shape) == [kind |-> "prox", solver |-> solver, shape |-> shape]

\* prox_l2 of the base operator: the iterative least-squares solve, on the
\* operator's own forward and adjoint pair.  Every iteration applies A to a
\* tensor of the shape of z and A_adjoint to one of the shape of y: adjoint is
\* what self.A_adjoint(y) gives and forward what self.A(z) gives.
LinearPhysics_prox_l2(z, gamma, adjoint, forward) ==
    IF ~adjoint.ok THEN adjoint
    ELSE IF ~forward.ok THEN forward
    ELSE IF ~Broadcastable(adjoint.val.shape, z.shape) THEN Raise("RuntimeError")
    ELSE Ok(ProxValue("iterative", z.shape))

\* Downsampling.prox_l2(z, y, gamma, use_fft), adjoint being what
\* self.A_adjoint(y) gives and forward what self.A(z) gives
Downsampling_prox_l2(o, z, gamma, use_fft, adjoint, forward) ==
    IF use_fft /\ getattr(o, "padding").s = "circular"
    THEN LET sf == getattr(o, "factor").n
         IN  IF ~adjoint.ok THEN adjoint
             ELSE IF gamma.num = 0 THEN Raise("ZeroDivisionError")
             ELSE IF ~Broadcastable(adjoint.val.shape, z.shape) THEN Raise("RuntimeError")
             ELSE IF ~hasattr(o, "Fh") THEN Raise("AttributeError")
             ELSE IF ~Broadcastable(getattr(o, "Fh").t.shape, z.shape)
             THEN Raise("RuntimeError")
             ELSE IF ~ChunksEqual(z.shape[3], sf) \/ ~ChunksEqual(z.shape[4], sf)
             THEN Raise("RuntimeError")
             ELSE Ok(ProxValue("closed form", z.shape))
    ELSE LinearPhysics_prox_l2(z, gamma, adjoint, forward)

----------------------------------------------------------------------------
(* The driver of the operators *)

\* height and width of the image the operators are applied to
PhysicsSize == 9

\* padding names, those of the documentation and others
AnyPaddings == Paddings \cup {"zero", "constant", "bogus"}

PresetNames == {"gaussian", "bilinear", "bicubic"}

\* filter names handed to Downsampling: the presets and one that is none
FilterNames == PresetNames \cup {"lanczos"}

Factors == {1, 2}

CustomKernels == {Ramp(<<1, 1, 3, 3>>), Ramp(<<1, 1, 2, 2>>)}

\* kernel_size of a BlindBlur: one integer, or a pair
BlindKernelSizes ==
    {PyInt(1), PyInt(2), PyInt(3), PyTuple(<<PyInt(3), PyInt(3)>>),
     PyTuple(<<PyInt(2), PyInt(3)>>)}

DownsamplingArgs ==
    {[cls |-> "Downsampling", img_size |-> <<1, PhysicsSize, PhysicsSize>>, factor |-> f] :
        f \in Factors}

InitPhysics ==
    /\ pc = "start"
    /\ x = Ramp(<<1, 1, PhysicsSize, PhysicsSize>>)
    /\ padding \in AnyPaddings
    /\ \/ /\ filter \in CustomKernels
          /\ params \in {PyTensor(filter), Parameter(filter)}
          /\ args \in {[cls |-> "Blur"]} \cup DownsamplingArgs
       \/ /\ filter = NoTensor
          /\ params \in {PyNone} \cup {PyStr(n) : n \in FilterNames}
          /\ args \in DownsamplingArgs
       \/ /\ filter \in CustomKernels
          /\ params = PyNone
          /\ args \in {[cls |-> "BlindBlur", kernel_size |-> k] : k \in BlindKernelSizes}
    /\ made = Outcome(NoResult)
    /\ self = NoObject
    /\ out = NoResult
    /\ y = NoTensor
    /\ adj = NoResult
    /\ fout = NoResult
    /\ calls = 0
    /\ draw = PyNone
    /\ psf = NoResult
    /\ NoCallMade

\* the constructor returned the object r.val or raised
Constructed(r) ==
    /\ made' = Outcome(r)
    /\ self' = IF r.ok THEN r.val ELSE NoObject
    /\ pc' = "made"

\* physics = Blur(params, padding)
ConstructBlur ==
    /\ pc = "start"
    /\ args.cls = "Blur"
    /\ Constructed(Blur_init(params, padding))
    /\ UNCHANGED <<engineVars, args, params, calls, draw, psf, callVars>>

\* physics = Downsampling(img_size, params, factor, padding=padding)
ConstructDownsampling ==
    /\ pc = "start"
    /\ args.cls = "Downsampling"
    /\ Constructed(Downsampling_init(args.img_size, params, args.factor, padding))
    /\ UNCHANGED <<engineVars, args, params, calls, draw, psf, callVars>>

\* physics = BlindBlur(kernel_size, padding)
ConstructBlindBlur ==
    /\ pc = "start"
    /\ args.cls = "BlindBlur"
    /\ Constructed(BlindBlur_init(args.kernel_size, padding))
    /\ UNCHANGED <<engineVars, args, params, calls, draw, psf, callVars>>

\* physics.A(x) on a Blur
ApplyBlur ==
    /\ pc = "made"
    /\ made.ok
    /\ args.cls = "Blur"
    /\ out' = Blur_A(self, x)
    /\ pc' = "applied"
    /\ UNCHANGED <<x, filter, padding, y, adj, fout, objectVars, callVars>>

\* physics.A(x) on a Downsampling
ApplyDownsampling ==
    /\ pc = "made"
    /\ made.ok
    /\ args.cls = "Downsampling"
    /\ out' = Downsampling_A(self, x)
    /\ pc' = "applied"
    /\ UNCHANGED <<x, filter, padding, y, adj, fout, objectVars, callVars>>

\* physics.A((x, filter)) on a BlindBlur
ApplyBlindBlur ==
    /\ pc = "made"
    /\ made.ok
    /\ args.cls = "BlindBlur"
    /\ out' = BlindBlur_A(self, <<x, filter>>)
    /\ pc' = "applied"
    /\ UNCHANGED <<x, filter, padding, y, adj, fout, objectVars, callVars>>

\* the tensor A_adjoint is tried on: of the shape A returned, or of the shape of
\* x when A raised
Measurement == Ramp(IF out.ok THEN out.val.shape ELSE x.shape)

\* physics.A_adjoint(y) on a Blur
AdjointBlur ==
    /\ pc = "applied"
    /\ args.cls = "Blur"
    /\ y' = Measurement
    /\ adj' = Blur_A_adjoint(self, Measurement)
    /\ pc' = "adjoint"
    /\ UNCHANGED <<x, filter, padding, out, fout, objectVars, callVars>>

\* physics.A_adjoint(y) on a Downsampling
AdjointDownsampling ==
    /\ pc = "applied"
    /\ args.cls = "Downsampling"
    /\ y' = Measurement
    /\ adj' = Downsampling_A_adjoint(self, Measurement)
    /\ pc' = "adjoint"
    /\ UNCHANGED <<x, filter, padding, out, fout, objectVars, callVars>>

\* s = physics.A_dagger(y) on a BlindBlur
PseudoInverseBlindBlur ==
    /\ pc = "applied"
    /\ args.cls = "BlindBlur"
    /\ y' = Measurement
    /\ inv' = BlindBlur_A_dagger(self, Measurement)
    /\ pc' = "inverted"
    /\ UNCHANGED <<x, filter, padding, out, adj, fout, objectVars, rng, log, threads, placed, heap>>

\* physics.A(s) on a BlindBlur, for the s that A_dagger returned
ReapplyBlindBlur ==
    /\ pc = "inverted"
    /\ inv.ok
    /\ x' = inv.val.x
    /\ filter' = inv.val.w
    /\ out' = BlindBlur_A(self, <<inv.val.x, inv.val.w>>)
    /\ pc' = "reapplied"
    /\ UNCHANGED <<padding, y, adj, fout, objectVars, callVars>>

\* the step of the proximal solves
ProxStep == PyFloat(1, 2)

\* physics.prox_l2(z, y, gamma) and physics.prox_l2(z, y, gamma, use_fft=False)
\* for z = x and y = physics.A(x)
ProxDownsampling ==
    /\ pc = "applied"
    /\ args.cls = "Downsampling"
    /\ out.ok
    /\ y' = out.val
    /\ \E use_fft \in BOOLEAN :
          /\ inv' = Downsampling_prox_l2(self, x, ProxStep, use_fft,
                                         Downsampling_A_adjoint(self, out.val), out)
          /\ pc' = IF use_fft THEN "prox" ELSE "prox without fft"
    /\ UNCHANGED <<x, filter, padding, out, adj, fout, objectVars, rng, log, threads, placed, heap>>

NextPhysics ==
    \/ ConstructBlur
    \/ ConstructDownsampling
    \/ ConstructBlindBlur
    \/ ApplyBlur
    \/ ApplyDownsampling
    \/ ApplyBlindBlur
    \/ AdjointBlur
    \/ AdjointDownsampling
    \/ PseudoInverseBlindBlur
    \/ ReapplyBlindBlur
    \/ ProxDownsampling

SpecPhysics == InitPhysics /\ [][NextPhysics]_vars

----------------------------------------------------------------------------
(* Properties of the operators *)

\* the kernel a Downsampling built from params holds
DownsamplingKernel ==
    CASE params = PyStr("gaussian") -> gaussian_blur(args.factor)
      [] params = PyStr("bilinear") -> bilinear_filter(args.factor)
      [] params = PyStr("bicubic")  -> bicubic_filter(args.factor)
      [] OTHER                      -> filter

\* C3: a Blur built from a kernel, plain tensor or Parameter, and a padding
\* policy is constructed, and its A and A_adjoint are conv and conv_transpose with
\* that kernel and policy; construction followed by A does not fail
C3_BlurUsesItsKernel ==
    (args.cls = "Blur" /\ pc # "start" /\ padding \in Paddings)
    => /\ made.ok
       /\ pc \in {"applied", "adjoint"}
          => (out.ok /\ out = conv(x, filter, padding))
       /\ pc = "adjoint" => adj = conv_transpose(y, filter, padding)

\* C7: with a padding name outside {valid, circular, reflect, replicate} the
\* constructor of Blur, Downsampling and BlindBlur fails, so that no operator
\* with such a name reaches A or A_adjoint
C7_UnknownPaddingFailsConstruction ==
    (pc # "start" /\ args.cls \in {"Blur", "Downsampling", "BlindBlur"}
     /\ padding \notin Paddings)
    => ~made.ok

\* C8: Downsampling is constructed for params None, for each preset name and for
\* a kernel given as a plain tensor or a Parameter, and holds the corresponding
\* kernel; for any other name the constructor raises
C8_DownsamplingDispatch ==
    (args.cls = "Downsampling" /\ pc # "start")
    => IF params.kind = "str" /\ params.s \notin PresetNames
       THEN ~made.ok
       ELSE IF params.kind = "NoneType"
       THEN made.ok /\ getattr(self, "params") = PyNone
       ELSE (DownsamplingKernel.shape[3] <= PhysicsSize)
            => (made.ok /\ getattr(self, "params").t = DownsamplingKernel)

\* C17: Downsampling.A_adjoint is the adjoint of Downsampling.A for every
\* factor, padding policy and filter choice: A_adjoint(y) has the declared image
\* shape and <A(x), y> = <x, A_adjoint(y)>
C17_DownsamplingAdjoint ==
    (args.cls = "Downsampling" /\ made.ok /\ padding \in Paddings /\ pc = "adjoint")
    => /\ out.ok
       /\ adj.ok
       /\ adj.val.shape = <<y.shape[1]>> \o args.img_size
       /\ Inner(out.val, y) = Inner(x, adj.val)

\* the kernel support a BlindBlur was declared with: (k, k) for an integer k
DeclaredSupport ==
    IF args.kernel_size.kind = "int"
    THEN <<args.kernel_size.n, args.kernel_size.n>>
    ELSE <<args.kernel_size.items[1].n, args.kernel_size.items[2].n>>

\* C15: BlindBlur.A_dagger(y) returns (x, w) with x equal to y and w one delta
\* kernel per batch element, of the declared support kh x kw, integer or pair,
\* with its 1 at (kh div 2, kw div 2); y is as it was
C15_TrivialInverse ==
    (args.cls = "BlindBlur" /\ pc = "inverted")
    => /\ inv.ok
       /\ inv.val.x = y
       /\ y = Measurement
       /\ inv.val.w = Tensor4(y.shape[1], 1, DeclaredSupport[1], DeclaredSupport[2],
                              LAMBDA b, c, i, j:
                                  IF i = DeclaredSupport[1] \div 2 /\ j = DeclaredSupport[2] \div 2
                                  THEN 1 ELSE 0)

\* C16: for every declared kernel size and every padding policy, A applied to
\* what A_dagger(y) returned is y
C16_TrivialInverseReproduces ==
    (args.cls = "BlindBlur" /\ padding \in Paddings)
    => /\ pc = "inverted" => inv.ok
       /\ pc = "reapplied" => out = Ok(y)

\* C22: prox_l2 of a Downsampling returns a value in every configuration, by the
\* closed form when the padding is circular, use_fft is left on and a filter
\* exists, by the iterative solve otherwise, and never fails on a missing
\* frequency response
C22_ProxSolverByConfiguration ==
    (args.cls = "Downsampling" /\ pc \in {"prox", "prox without fft"})
    => /\ inv.ok
       /\ inv.val.solver
          = (IF /\ pc = "prox"
                /\ padding = "circular"
                /\ getattr(self, "params").kind # "NoneType"
             THEN "closed form" ELSE "iterative")
       /\ inv.err # "AttributeError"

\* the solver is the closed form exactly under circular padding with use_fft on,
\* whenever the call returns
ClosedFormOnlyWhenCircular ==
    (args.cls = "Downsampling" /\ pc \in {"prox", "prox without fft"} /\ inv.ok)
    => (inv.val.solver = "closed form") = (pc = "prox" /\ padding = "circular")

----------------------------------------------------------------------------
(* The driver of the generators *)

\* largest batch_size of a step() call
MaxBatch == 2

\* largest number of step() calls on one generator
MaxCalls == 2

\* largest Zernike index tried
MaxIndexTried == 40

\* the name "Z<n>" of the Zernike coefficient n < 100
ZernikeName(n) ==
    PyChars(IF n < 10 THEN <<"Z", DecimalDigits[n + 1]>>
            ELSE <<"Z", DecimalDigits[(n \div 10) + 1], DecimalDigits[(n % 10) + 1]>>)

\* the default of list_param
DefaultListParam == [k \in 1..8 |-> ZernikeName(k + 3)]

ListParams ==
    {<<ZernikeName(n)>> : n \in 0..MaxIndexTried}
    \cup {DefaultListParam, <<ZernikeName(11), ZernikeName(4)>>,
          <<ZernikeName(4), ZernikeName(MaxIndexTried)>>}

GeneratorShapes == {<<1, 3, 3>>, <<3, 3>>, <<2, 3, 2>>}

PupilSizes == {<<4, 4>>, <<2, 5>>}

\* numbers of points of a trajectory: none, and two
StepCounts == {6, 13}

\* the signals f_matern may build, of the given length, in halves: all 0, the
\* alternation of 3/2 and -3/2, and 0, 1/2, 1, ...
Signals(length) ==
    {[k \in 1..length |-> 0],
     [k \in 1..length |-> IF k % 2 = 1 THEN 3 ELSE -3],
     [k \in 1..length |-> k - 1]}

\* the intensities a diffraction step may compute: of shape (batch_size, 1, P0, P1)
Intensities(batch_size, pupil) ==
    {Ramp(<<batch_size, 1, pupil[1], pupil[2]>>),
     Tensor4(batch_size, 1, pupil[1], pupil[2], LAMBDA b, c, i, j: 0)}

\* the shape of the example of the DiffractionBlurGenerator docstring
ExampleShape == <<16, 16>>

InitGenerator ==
    /\ pc = "start"
    /\ args \in {[cls |-> "DiffractionBlurGenerator", shape |-> s, list_param |-> l,
                  pupil_size |-> p] :
                     s \in GeneratorShapes, l \in ListParams, p \in PupilSizes}
               \cup {[cls |-> "MotionBlurGenerator", shape |-> s, n_steps |-> n] :
                        s \in GeneratorShapes, n \in StepCounts}
               \cup {[cls |-> "DiffractionBlurGenerator", shape |-> ExampleShape,
                       list_param |-> DefaultListParam, pupil_size |-> p] :
                         p \in PupilSizes}
    /\ params = PyNone
    /\ made = Outcome(NoResult)
    /\ self = NoObject
    /\ calls = 0
    /\ draw = PyNone
    /\ psf = NoResult
    /\ x = NoTensor
    /\ filter = NoTensor
    /\ padding = "valid"
    /\ out = NoResult
    /\ y = NoTensor
    /\ adj = NoResult
    /\ fout = NoResult
    /\ NoCallMade

\* generator = DiffractionBlurGenerator(shape, list_param=..., pupil_size=...)
ConstructDiffraction ==
    /\ pc = "start"
    /\ args.cls = "DiffractionBlurGenerator"
    /\ Constructed(DiffractionBlurGenerator_init(args.shape, args.list_param,
                                                 args.pupil_size))
    /\ UNCHANGED <<engineVars, args, params, calls, draw, psf, callVars>>

\* generator = MotionBlurGenerator(shape, n_steps=...)
ConstructMotion ==
    /\ pc = "start"
    /\ args.cls = "MotionBlurGenerator"
    /\ Constructed(MotionBlurGenerator_init(args.shape, args.n_steps))
    /\ UNCHANGED <<engineVars, args, params, calls, draw, psf, callVars>>

\* the step() call did r
StepDone(r) ==
    /\ psf' = r.res
    /\ self' = r.obj
    /\ calls' = calls + 1
    /\ pc' = "stepped"

\* generator.step(batch_size) on a DiffractionBlurGenerator
StepDiffraction ==
    /\ pc \in {"made", "stepped"}
    /\ made.ok
    /\ args.cls = "DiffractionBlurGenerator"
    /\ calls < MaxCalls
    /\ \E b \in 1..MaxBatch :
          \E psf2 \in Intensities(b, getattr(self, "pupil_size").items) :
             /\ draw' = [batch_size |-> b, psf2 |-> psf2]
             /\ StepDone(DiffractionBlurGenerator_step(self, b, psf2))
    /\ UNCHANGED <<engineVars, args, params, made, callVars>>

\* generator.step(batch_size) on a MotionBlurGenerator
StepMotion ==
    /\ pc \in {"made", "stepped"}
    /\ made.ok
    /\ args.cls = "MotionBlurGenerator"
    /\ calls < MaxCalls
    /\ \E b \in 1..MaxBatch :
          LET length == 2 * (args.n_steps \div 2)
          IN  \E sx \in [1..b -> Signals(length)], sy \in [1..b -> Signals(length)] :
                 /\ draw' = [batch_size |-> b, signal_x |-> sx, signal_y |-> sy]
                 /\ StepDone(MotionBlurGenerator_step(self, b, sx, sy))
    /\ UNCHANGED <<engineVars, args, params, made, callVars>>

NextGenerator ==
    \/ ConstructDiffraction
    \/ ConstructMotion
    \/ StepDiffraction
    \/ StepMotion

SpecGenerator == InitGenerator /\ [][NextGenerator]_vars

----------------------------------------------------------------------------
(* Properties of the generators *)

\* the indices the names of list_param write
RequestedIndices ==
    [k \in 1..Len(args.list_param) |->
        DigitsValue(SliceFrom1(args.list_param[k].chars),
                    Len(args.list_param[k].chars) - 1)]

\* C9: DiffractionBlurGenerator is constructed for every list of indices from
\* 1..38, its k-th basis plane being the polynomial of the k-th index in
\* increasing order, and with an index above 38 the constructor fails on its
\* assert
C9_ZernikeIndicesAccepted ==
    (args.cls = "DiffractionBlurGenerator" /\ pc # "start")
    => LET idx == RequestedIndices
       IN  /\ (\A k \in 1..Len(idx) : idx[k] \in 1..MaxZernikeIndex)
              => (made.ok /\ getattr(self, "Z").polys = np_sort(idx))
           /\ (\E k \in 1..Len(idx) : idx[k] > MaxZernikeIndex)
              => (~made.ok /\ made.err = "AssertionError")

\* C10: every kernel a step() call returns has finite entries that sum to 1 in
\* each plane, also when every point of the trajectory is outside of
\* [-1, 1] x [-1, 1]
C10_KernelsFiniteAndNormalized ==
    (/\ pc = "stepped"
     /\ psf.ok
     /\ args.cls = "MotionBlurGenerator" => TrajectoryLength(args.n_steps) > 0)
    => LET k == psf.val.filter
       IN  /\ \A n \in 1..Len(k.data) : IsFinite(k.data[n])
           /\ \A b \in 0..(k.shape[1] - 1), c \in 0..(k.shape[2] - 1) :
                 LET first == (b * k.shape[2] + c) * k.shape[3] * k.shape[4]
                 IN  SeqSum([n \in 1..(k.shape[3] * k.shape[4]) |-> k.data[first + n].num],
                            k.shape[3] * k.shape[4])
                     = k.data[first + 1].den

\* the generator as its constructor returned it
FreshGenerator ==
    IF args.cls = "DiffractionBlurGenerator"
    THEN DiffractionBlurGenerator_init(args.shape, args.list_param, args.pupil_size).val
    ELSE MotionBlurGenerator_init(args.shape, args.n_steps).val

\* what the last step() call returns when made with the same draw on the
\* generator as constructed
FirstCallResult ==
    IF args.cls = "DiffractionBlurGenerator"
    THEN DiffractionBlurGenerator_step(FreshGenerator, draw.batch_size, draw.psf2).res
    ELSE MotionBlurGenerator_step(FreshGenerator, draw.batch_size,
                                  draw.signal_x, draw.signal_y).res

\* C12: every step(batch_size) call of a sequence of calls with changing batch
\* sizes returns a dictionary whose 'filter' has batch_size kernels of the
\* kernel size given to the constructor, and returns what it returns as the
\* first call on the generator
C12_StepCallsIndependent ==
    (pc = "stepped")
    => /\ psf.ok
       /\ psf.val.kind = "dict"
       /\ psf.val.filter.shape[1] = draw.batch_size
       /\ psf.val.filter.shape[3] = FromEnd(args.shape, 2)
       /\ psf.val.filter.shape[4] = FromEnd(args.shape, 1)
       /\ psf = FirstCallResult

\* C13: a DiffractionBlurGenerator built from a shape (kh, kw) with the default
\* list_param is constructed, and step() with batch_size 1 returns a kernel of
\* shape (1, 1, kh, kw)
C13_TwoEntryShapeSteps ==
    (/\ args.cls = "DiffractionBlurGenerator"
     /\ Len(args.shape) = 2
     /\ args.list_param = DefaultListParam
     /\ pc # "start")
    => /\ made.ok
       /\ (pc = "stepped" /\ draw.batch_size = 1)
          => /\ psf.ok
             /\ psf.val.filter.shape = <<1, 1, args.shape[1], args.shape[2]>>

\* the crop window the constructor computes: the pupil is the larger of the
\* requested pupil and the kernel on each axis, pad_pre and pad_post are the
\* upper and the lower half of their difference, and the window
\* [pad_pre, pupil - pad_post) has the kernel's length
CropWindowFitsKernel ==
    (args.cls = "DiffractionBlurGenerator" /\ pc # "start" /\ made.ok)
    => LET pupil == getattr(self, "pupil_size").items
           pre == getattr(self, "pad_pre").items
           post == getattr(self, "pad_post").items
       IN  \A a \in 1..2 :
              LET K == FromEnd(args.shape, 3 - a)
                  d == pupil[a] - K
              IN  /\ pupil[a] = Max(args.pupil_size[a], K)
                  /\ post[a] = d \div 2
                  /\ pre[a] = d - d \div 2
                  /\ Len(Slice(pupil[a], pre[a], pupil[a] - post[a])) = K

\* C23: a DiffractionBlurGenerator crops to the requested kernel size: for every
\* kernel size and requested pupil size the window [pad_pre, pupil - pad_post)
\* over the larger of pupil and kernel has the kernel's length on each axis, the
\* odd pixel cut on the leading edge, and the kernel step() returns has that size
C23_CropYieldsKernelSize ==
    /\ CropWindowFitsKernel
    /\ (args.cls = "DiffractionBlurGenerator" /\ pc = "stepped" /\ made.ok)
       => /\ psf.ok
          /\ psf.val.filter.shape[3] = FromEnd(args.shape, 2)
          /\ psf.val.filter.shape[4] = FromEnd(args.shape, 1)

----------------------------------------------------------------------------
(* Random draws: torch's global generator and the step() calls that use it *)

\* torch.manual_seed(seed): the global generator restarts the stream of the seed
torch_manual_seed(seed) == [kind |-> "Generator", seed |-> seed, offset |-> 0]

\* torch.randn(rows, n) with no generator argument: each row is the stretch of
\* the global generator's stream at its offset, and the generator moves on
torch_randn(g, rows) ==
    [val |-> [r \in 1..rows |-> [seed |-> g.seed, offset |-> g.offset + r - 1]],
     gen |-> [g EXCEPT !.offset = @ + rows]]

\* the signal irfft returns in f_matern for one row of noise, in halves: a
\* function of the noise alone, a first value of 0 or 1 followed by zeros
MaternSignal(noise, length) ==
    [k \in 1..length |-> IF k = 1 THEN 2 * ((noise.seed + noise.offset) % 2) ELSE 0]

\* MotionBlurGenerator.step(batch_size) with the noise of the global generator
\* g: f_matern draws for x, then for y
MotionBlurGenerator_step_randn(o, batch_size, g) ==
    LET length == 2 * (getattr(o, "n_steps").n \div 2)
        vec_x == torch_randn(g, batch_size)
        vec_y == torch_randn(vec_x.gen, batch_size)
        signal_x == [b \in 1..batch_size |-> MaternSignal(vec_x.val[b], length)]
        signal_y == [b \in 1..batch_size |-> MaternSignal(vec_y.val[b], length)]
    IN  [did |-> MotionBlurGenerator_step(o, batch_size, signal_x, signal_y),
         gen |-> vec_y.gen,
         signal_x |-> signal_x,
         signal_y |-> signal_y]

\* seeds handed to torch.manual_seed: 0 .. MaxSeed
MaxSeed == 1

\* largest offset of the global generator at which another draw is made
MaxDrawn == 3

\* largest number of logged calls
MaxLog == 4

\* a MotionBlurGenerator of 3x3 kernels whose trajectories have two points, in a
\* program whose global generator was seeded with 0
InitSeeded ==
    /\ pc = "made"
    /\ args = [cls |-> "MotionBlurGenerator", shape |-> <<1, 3, 3>>, n_steps |-> 13]
    /\ params = PyNone
    /\ made = Outcome(MotionBlurGenerator_init(args.shape, args.n_steps))
    /\ self = MotionBlurGenerator_init(args.shape, args.n_steps).val
    /\ calls = 0
    /\ draw = PyNone
    /\ psf = NoResult
    /\ x = NoTensor
    /\ filter = NoTensor
    /\ padding = "valid"
    /\ out = NoResult
    /\ y = NoTensor
    /\ adj = NoResult
    /\ fout = NoResult
    /\ inv = NoResult
    /\ rng = torch_manual_seed(0)
    /\ log = <<>>
    /\ threads = <<>>
    /\ placed = NoResult
    /\ heap = <<>>

\* torch.manual_seed(s), the only seed a step() call can be given
ManualSeed ==
    /\ Len(log) < MaxLog
    /\ \E s \in 0..MaxSeed :
          /\ rng' = torch_manual_seed(s)
          /\ log' = Append(log, [op |-> "manual_seed", seed |-> s])
    /\ UNCHANGED <<pc, engineVars, objectVars, inv, threads, placed, heap>>

\* a random draw elsewhere in the program: torch.randn(1, n)
OtherDraw ==
    /\ rng.offset < MaxDrawn
    /\ rng' = torch_randn(rng, 1).gen
    /\ UNCHANGED <<pc, engineVars, objectVars, inv, log, threads, placed, heap>>

\* generator.step(batch_size), drawing from the global generator
StepSeeded ==
    /\ Len(log) < MaxLog
    /\ \E b \in 1..MaxBatch :
          LET r == MotionBlurGenerator_step_randn(self, b, rng)
          IN  /\ draw' = [batch_size |-> b, signal_x |-> r.signal_x, signal_y |-> r.signal_y]
              /\ StepDone(r.did)
              /\ rng' = r.gen
              /\ log' = Append(log, [op |-> "step", seed |-> rng.seed, batch_size |-> b,
                                     res |-> r.did.res])
    /\ UNCHANGED <<engineVars, args, params, made, inv, threads, placed, heap>>

NextSeeded == ManualSeed \/ OtherDraw \/ StepSeeded

SpecSeeded == InitSeeded /\ [][NextSeeded]_vars

\* the logged step() calls made right after a torch.manual_seed call
SeededSteps ==
    {k \in 2..Len(log) : log[k].op = "step" /\ log[k - 1].op = "manual_seed"}

\* C11: two step() calls given the same seed and the same parameters return
\* the same kernels, whatever other random draws are made in between
C11_SameSeedSameKernels ==
    \A i \in SeededSteps, j \in SeededSteps :
        (log[i].seed = log[j].seed /\ log[i].batch_size = log[j].batch_size)
        => log[i].res = log[j].res

----------------------------------------------------------------------------
(* Two step() calls on one generator, their statements interleaved *)

\* a step(batch_size) call that has not started
NewCall(batch_size) ==
    [at |-> "called", batch_size |-> batch_size, f_x |-> <<>>, f_y |-> <<>>,
     res |-> NoResult, read_foreign |-> FALSE]

\* a MotionBlurGenerator of 3x3 kernels and two calls of different batch sizes.
\* threads.shape_writer is the call that assigned self.shape last.
InitInterleaved ==
    /\ pc = "made"
    /\ args = [cls |-> "MotionBlurGenerator", shape |-> <<1, 3, 3>>, n_steps |-> 13]
    /\ params = PyNone
    /\ made = Outcome(MotionBlurGenerator_init(args.shape, args.n_steps))
    /\ self = MotionBlurGenerator_init(args.shape, args.n_steps).val
    /\ calls = 0
    /\ draw = PyNone
    /\ psf = NoResult
    /\ x = NoTensor
    /\ filter = NoTensor
    /\ padding = "valid"
    /\ out = NoResult
    /\ y = NoTensor
    /\ adj = NoResult
    /\ fout = NoResult
    /\ inv = NoResult
    /\ rng = PyNone
    /\ log = <<>>
    /\ placed = NoResult
    /\ heap = <<>>
    /\ \E b1 \in 1..MaxBatch, b2 \in 1..MaxBatch :
          /\ b1 # b2
          /\ threads = [call |-> <<NewCall(b1), NewCall(b2)>>, shape_writer |-> 0]

\* call t runs the statement that assigns self.shape
StepAssignShape(t) ==
    /\ threads.call[t].at = "called"
    /\ LET r == MotionBlurGenerator_step_shape(self, threads.call[t].batch_size)
       IN  /\ self' = r.val
           /\ threads' = [threads EXCEPT
                            !.call[t].at = IF r.ok THEN "shaped" ELSE "done",
                            !.call[t].res = IF r.ok THEN @ ELSE Raise(r.err),
                            !.shape_writer = IF r.ok THEN t ELSE @]
    /\ UNCHANGED <<pc, engineVars, args, params, made, calls, draw, psf, inv, rng, log, placed, heap>>

\* call t runs f_x = self.f_matern(sigma, l), which reads self.shape[0]
StepDrawX(t) ==
    /\ threads.call[t].at = "shaped"
    /\ \E signal \in Signals(2 * (args.n_steps \div 2)) :
          threads' = [threads EXCEPT
                        !.call[t].at = "drew_x",
                        !.call[t].f_x =
                            f_matern(self, [b \in 1..getattr(self, "shape").items[1] |-> signal]),
                        !.call[t].read_foreign = @ \/ threads.shape_writer # t]
    /\ UNCHANGED <<pc, engineVars, objectVars, inv, rng, log, placed, heap>>

\* call t runs f_y = self.f_matern(sigma, l), which reads self.shape[0]
StepDrawY(t) ==
    /\ threads.call[t].at = "drew_x"
    /\ \E signal \in Signals(2 * (args.n_steps \div 2)) :
          threads' = [threads EXCEPT
                        !.call[t].at = "drew_y",
                        !.call[t].f_y =
                            f_matern(self, [b \in 1..getattr(self, "shape").items[1] |-> signal]),
                        !.call[t].read_foreign = @ \/ threads.shape_writer # t]
    /\ UNCHANGED <<pc, engineVars, objectVars, inv, rng, log, placed, heap>>

\* call t runs the rest of step() and returns or raises
StepReturn(t) ==
    /\ threads.call[t].at = "drew_y"
    /\ threads' = [threads EXCEPT
                     !.call[t].at = "done",
                     !.call[t].res =
                         MotionBlurGenerator_step_kernel(self, threads.call[t].f_x,
                                                         threads.call[t].f_y)]
    /\ calls' = calls + 1
    /\ UNCHANGED <<pc, engineVars, args, params, made, self, draw, psf, inv, rng, log, placed, heap>>

NextInterleaved ==
    \E t \in 1..2 :
        \/ StepAssignShape(t)
        \/ StepDrawX(t)
        \/ StepDrawY(t)
        \/ StepReturn(t)

SpecInterleaved == InitInterleaved /\ [][NextInterleaved]_vars

\* C14: of two interleaved step() calls with different batch sizes, each returns
\* a batch of kernels of its own batch size, and neither reads a field of the
\* generator that the other call assigned
C14_InterleavedCallsIndependent ==
    \A t \in 1..2 :
        /\ ~threads.call[t].read_foreign
        /\ threads.call[t].at = "done"
           => /\ threads.call[t].res.ok
              /\ threads.call[t].res.val.filter.shape[1] = threads.call[t].batch_size

----------------------------------------------------------------------------
(* filter_fft on kernels and image sizes of every parity *)

\* largest height and width filter_fft is given as img_size
MaxTarget == 4

\* a kernel of distinct entries and an image size (C, H, W)
InitFilterFFT ==
    /\ pc = "start"
    /\ filter \in {Ramp(s) : s \in PlaneKernelShapes}
                  \cup {Ramp(<<1, MaxCount, MaxKernel, MaxKernel>>)}
    /\ args \in {[cls |-> "filter_fft", img_size |-> <<filter.shape[2], H, W>>] :
                    H \in 1..MaxTarget, W \in 1..MaxTarget}
    /\ x = NoTensor
    /\ padding = "circular"
    /\ out = NoResult
    /\ y = NoTensor
    /\ adj = NoResult
    /\ fout = NoResult
    /\ params = PyNone
    /\ made = Outcome(NoResult)
    /\ self = NoObject
    /\ calls = 0
    /\ draw = PyNone
    /\ psf = NoResult
    /\ NoCallMade

\* filter_fft(filter, img_size), up to the transform
CallFilterFFT ==
    /\ pc = "start"
    /\ placed' = filter_fft_spatial(filter, FromEnd(args.img_size, 2), FromEnd(args.img_size, 1))
    /\ pc' = "rolled"
    /\ UNCHANGED <<engineVars, objectVars, inv, rng, log, threads, heap>>

\* F = filter_fft(filter, img_size) used as a multiplier: the FFT blur of the
\* image of distinct entries
CallMultiply ==
    /\ pc = "rolled"
    /\ placed.ok
    /\ x' = Ramp(<<1>> \o args.img_size)
    /\ fout' = FreqMultiply(Ramp(<<1>> \o args.img_size), placed.val)
    /\ pc' = "fft"
    /\ UNCHANGED <<filter, padding, out, y, adj, objectVars, callVars>>

NextFilterFFT == CallFilterFFT \/ CallMultiply

SpecFilterFFT == InitFilterFFT /\ [][NextFilterFFT]_vars

\* the array filter_fft built holds kernel entry (i, j) at
\* ((i - ph) mod H, (j - pw) mod W) for ph = (kh - 1) div 2, pw = (kw - 1) div 2,
\* and 0 everywhere else
PlacedByHalfWidth ==
    LET kh == filter.shape[3]
        kw == filter.shape[4]
        H == FromEnd(args.img_size, 2)
        W == FromEnd(args.img_size, 1)
    IN  /\ placed.ok
        /\ placed.val.shape = <<filter.shape[1], filter.shape[2], H, W>>
        /\ \A b \in 0..(filter.shape[1] - 1), c \in 0..(filter.shape[2] - 1),
              p \in 0..(H - 1), q \in 0..(W - 1) :
              At(placed.val, b, c, p, q)
              = IF \E i \in 0..(kh - 1), j \in 0..(kw - 1) :
                      (i - HalfWidth(kh)) % H = p /\ (j - HalfWidth(kw)) % W = q
                THEN LET i == CHOOSE i \in 0..(kh - 1) : (i - HalfWidth(kh)) % H = p
                         j == CHOOSE j \in 0..(kw - 1) : (j - HalfWidth(kw)) % W = q
                     IN  At(filter, b, c, i, j)
                ELSE 0

\* C19 as stated: for a kernel no larger than the target size, odd or even,
\* filter_fft places the entries by the half widths, so that the kernel's entry
\* (kh div 2, kw div 2) is at index (0, 0)
C19_CenterAtOrigin ==
    (/\ pc # "start"
     /\ filter.shape[3] <= FromEnd(args.img_size, 2)
     /\ filter.shape[4] <= FromEnd(args.img_size, 1))
    => /\ PlacedByHalfWidth
       /\ \A b \in 0..(filter.shape[1] - 1), c \in 0..(filter.shape[2] - 1) :
             At(placed.val, b, c, 0, 0)
             = At(filter, b, c, filter.shape[3] \div 2, filter.shape[4] \div 2)

\* C19 as amended: the entries are placed by the half widths, so that the
\* kernel's entry ((kh - 1) div 2, (kw - 1) div 2) is at index (0, 0)
C19_HalfWidthAtOrigin ==
    (/\ pc # "start"
     /\ filter.shape[3] <= FromEnd(args.img_size, 2)
     /\ filter.shape[4] <= FromEnd(args.img_size, 1))
    => /\ PlacedByHalfWidth
       /\ \A b \in 0..(filter.shape[1] - 1), c \in 0..(filter.shape[2] - 1) :
             At(placed.val, b, c, 0, 0)
             = At(filter, b, c, HalfWidth(filter.shape[3]), HalfWidth(filter.shape[4]))

\* filter_fft placed a kernel of even height and odd width at least 3 in a
\* larger array, rolling it in both dimensions
C19_EvenKernelPlaced ==
    /\ pc = "rolled"
    /\ placed.ok
    /\ filter.shape[3] % 2 = 0
    /\ filter.shape[4] = 3
    /\ filter.shape[3] < FromEnd(args.img_size, 2)
    /\ filter.shape[4] < FromEnd(args.img_size, 1)

----------------------------------------------------------------------------
(* Exact complex numbers for the orthonormal transforms of BlurFFT *)

\* the number (re + i im) / den * sqrt(rad), kept in the normal form with
\* den > 0, gcd(re, im, den) = 1 and rad squarefree; zero is 0 / 1 * sqrt(1)
Number(re, im, den, rad) == [re |-> re, im |-> im, den |-> den, rad |-> rad]

\* inf and nan, what a division by zero gives: no number of the form above
NotANumber == Number(0, 0, 0, 0)

Zero == Number(0, 0, 1, 1)

RECURSIVE Gcd(_, _)
Gcd(m, n) == IF n = 0 THEN m ELSE Gcd(n, m % n)

Normal(re, im, den, rad) ==
    IF re = 0 /\ im = 0 THEN Zero
    ELSE LET g == Gcd(Gcd(Abs(re), Abs(im)), den)
         IN  Number(re \div g, im \div g, den \div g, rad)

\* the largest s with s * s a divisor of m, for m > 0
SquarePart(m) ==
    LET above == IF m < 256 THEN 16 ELSE IF m < 65536 THEN 256 ELSE 46340
        S == {s \in 1..above : s * s <= m /\ m % (s * s) = 0}
    IN  CHOOSE s \in S : \A t \in S : t <= s

\* sqrt(m) for an integer m >= 0
Sqrt(m) ==
    IF m = 0 THEN Zero
    ELSE LET s == SquarePart(m) IN Number(s, 0, 1, m \div (s * s))

Real(n) == Number(n, 0, 1, 1)

CConj(a) == [a EXCEPT !.im = -a.im]

\* a * b: sqrt(r1) * sqrt(r2) = g * sqrt((r1 / g) * (r2 / g)) for g = gcd(r1, r2)
CMul(a, b) ==
    IF a = NotANumber \/ b = NotANumber THEN NotANumber
    ELSE LET g == Gcd(a.rad, b.rad)
         IN  Normal((a.re * b.re - a.im * b.im) * g,
                    (a.re * b.im + a.im * b.re) * g,
                    a.den * b.den,
                    (a.rad \div g) * (b.rad \div g))

\* 1 / a = den * (re - i im) * sqrt(rad) / ((re^2 + im^2) * rad)
CInv(a) ==
    IF a = NotANumber \/ a = Zero THEN NotANumber
    ELSE Normal(a.den * a.re, -(a.den * a.im),
                (a.re * a.re + a.im * a.im) * a.rad, a.rad)

CDiv(a, b) == CMul(a, CInv(b))

\* a + b, for summands over the same root
CAdd(a, b) ==
    IF a = NotANumber \/ b = NotANumber THEN NotANumber
    ELSE IF a = Zero THEN b
    ELSE IF b = Zero THEN a
    ELSE IF a.rad # b.rad THEN NotANumber
    ELSE Normal(a.re * b.den + b.re * a.den, a.im * b.den + b.im * a.den,
                a.den * b.den, a.rad)

\* the real and the imaginary part
Re(a) == IF a = NotANumber THEN a ELSE Normal(a.re, 0, a.den, a.rad)

Im(a) == IF a = NotANumber THEN a ELSE Normal(a.im, 0, a.den, a.rad)

ImaginaryUnit == Number(0, 1, 1, 1)

\* torch.abs of a complex number
CAbs(a) ==
    IF a = NotANumber THEN a
    ELSE CMul(Sqrt((a.re * a.re + a.im * a.im) * a.rad), CInv(Real(a.den)))

\* torch.exp(-1j * torch.angle(a)): conj(a) / |a|, and 1 for a = 0, whose angle is 0
ExpMinusAngle(a) ==
    IF a = Zero THEN Real(1) ELSE CDiv(CConj(a), CAbs(a))

\* the image and kernel sizes whose roots of unity are Gaussian integers
ExactSizes == {1, 2, 4}

\* exp(-2 pi i k / N) for N in ExactSizes
Twiddle(N, k) ==
    LET q == (k * (4 \div N)) % 4
    IN  CASE q = 0 -> Real(1)
          [] q = 1 -> Number(0, -1, 1, 1)
          [] q = 2 -> Real(-1)
          [] q = 3 -> Number(0, 1, 1, 1)

\* 1 / sqrt(N), the factor of norm="ortho"
Ortho(N) == CInv(Sqrt(N))

\* the real tensor of an integer tensor
AsReal(t) == [shape |-> t.shape, data |-> [n \in DOMAIN t.data |-> Real(t.data[n])]]

\* the sum over the pixels 0 .. k of plane (b, c) of t, each times its two
\* twiddle factors for the frequency (u, v)
RECURSIVE DFTSum(_, _, _, _, _, _)
DFTSum(t, b, c, u, v, k) ==
    IF k < 0 THEN Zero
    ELSE LET i == k \div t.shape[4]
             j == k % t.shape[4]
         IN  CAdd(DFTSum(t, b, c, u, v, k - 1),
                  CMul(At(t, b, c, i, j),
                       CMul(Twiddle(t.shape[3], u * i), Twiddle(t.shape[4], v * j))))

\* fft.rfft2(t) of a real tensor times scale: the frequencies (u, v) of the
\* half spectrum, v = 0 .. W div 2
rfft2(t, scale) ==
    Tensor4(t.shape[1], t.shape[2], t.shape[3], t.shape[4] \div 2 + 1,
            LAMBDA b, c, u, v:
                CMul(scale, DFTSum(t, b, c, u, v, t.shape[3] * t.shape[4] - 1)))

\* the complex inverse transform along the rows' dimension: the sum over the
\* frequencies 0 .. u of column v for row i
RECURSIVE ColumnInverseSum(_, _, _, _, _, _)
ColumnInverseSum(Z, b, c, i, v, u) ==
    IF u < 0 THEN Zero
    ELSE CAdd(ColumnInverseSum(Z, b, c, i, v, u - 1),
              CMul(At(Z, b, c, u, v), CConj(Twiddle(Z.shape[3], u * i))))

\* the complex-to-real transform along the last dimension: the frequencies 0 and,
\* for even W, W / 2 count once and by their real part, the others twice, for
\* themselves and for their conjugates the half spectrum leaves out
RECURSIVE HalfInverseSum(_, _, _, _, _, _, _)
HalfInverseSum(Z, W, b, c, i, j, v) ==
    IF v < 0 THEN Zero
    ELSE LET Y == ColumnInverseSum(Z, b, c, i, v, Z.shape[3] - 1)
             term == Re(CMul(Y, CConj(Twiddle(W, v * j))))
             weight == IF v = 0 \/ 2 * v = W THEN 1 ELSE 2
         IN  CAdd(HalfInverseSum(Z, W, b, c, i, j, v - 1), CMul(Real(weight), term))

\* fft.irfft2(Z, norm="ortho", s=(H, W)) of a half spectrum of W div 2 + 1 columns
irfft2(Z, H, W) ==
    IF Z.shape[3] # H \/ Z.shape[4] # W \div 2 + 1 THEN Raise("RuntimeError")
    ELSE Ok(Tensor4(Z.shape[1], Z.shape[2], H, W,
                    LAMBDA b, c, i, j:
                        CMul(Ortho(H * W), HalfInverseSum(Z, W, b, c, i, j, W \div 2))))

\* torch.view_as_real: each complex entry as the pair of its parts
view_as_real(Z) ==
    [shape |-> Z.shape, data |-> [n \in DOMAIN Z.data |-> <<Re(Z.data[n]), Im(Z.data[n])>>]]

\* torch.view_as_complex: each pair as the complex number of these parts
view_as_complex(P) ==
    [shape |-> P.shape,
     data |-> [n \in DOMAIN P.data |->
                 CAdd(P.data[n][1], CMul(ImaginaryUnit, P.data[n][2]))]]

\* a op b entry by entry, batch and channel counts of 1 broadcast
Broadcast(a, b, op(_, _)) ==
    LET Bo == BroadcastSize(a.shape[1], b.shape[1])
        Co == BroadcastSize(a.shape[2], b.shape[2])
    IN  IF Bo = 0 \/ Co = 0 \/ a.shape[3] # b.shape[3] \/ a.shape[4] # b.shape[4]
        THEN Raise("RuntimeError")
        ELSE Ok(Tensor4(Bo, Co, a.shape[3], a.shape[4],
                        LAMBDA b1, c1, i, j:
                            op(At(a, IF a.shape[1] = 1 THEN 0 ELSE b1,
                                     IF a.shape[2] = 1 THEN 0 ELSE c1, i, j),
                               At(b, IF b.shape[1] = 1 THEN 0 ELSE b1,
                                     IF b.shape[2] = 1 THEN 0 ELSE c1, i, j))))

\* a pair of parts times, and over, a pair of real factors
PairMul(p, m) == <<CMul(p[1], m[1]), CMul(p[2], m[2])>>

PairDiv(p, m) == <<CDiv(p[1], m[1]), CDiv(p[2], m[2])>>

\* filter_fft(filter, img_size): the transform of the placed kernel
filter_fft(f, img_size) ==
    LET filt2 == filter_fft_spatial(f, FromEnd(img_size, 2), FromEnd(img_size, 1))
    IN  IF ~filt2.ok THEN filt2 ELSE Ok(rfft2(AsReal(filt2.val), Real(1)))

\* BlurFFT.__init__(img_size, params): self.params is the magnitude of the
\* response, once for the real and once for the imaginary parts, and self.angle
\* is exp(-i angle) of the response
BlurFFT_init(img_size, p) ==
    LET s0 == Physics_init("BlurFFT")
        s1 == setattr(s0, "img_size", PyTuple(img_size))
        repeated == IF img_size[1] > p.t.shape[2] THEN Repeat(p.t, 1, img_size[1]) ELSE p.t
        F == filter_fft(repeated, img_size)
    IN  IF ~F.ok THEN F
        ELSE LET angle == [shape |-> F.val.shape,
                           data |-> [n \in DOMAIN F.val.data |-> ExpMinusAngle(F.val.data[n])]]
                 mask == [shape |-> F.val.shape,
                          data |-> [n \in DOMAIN F.val.data |->
                                      <<CAbs(F.val.data[n]), CAbs(F.val.data[n])>>]]
                 s2 == setattr(s1, "angle", PyTensor(angle))
             IN  Ok(setattr(s2, "params", Parameter(mask)))

\* BlurFFT.V_adjoint(x)
BlurFFT_V_adjoint(o, t) ==
    view_as_real(rfft2(t, Ortho(t.shape[3] * t.shape[4])))

\* BlurFFT.U(x)
BlurFFT_U(o, P) ==
    LET rotated == Broadcast(view_as_complex(P), getattr(o, "angle").t, CMul)
    IN  IF ~rotated.ok THEN rotated
        ELSE irfft2(rotated.val, FromEnd(getattr(o, "img_size").items, 2),
                    FromEnd(getattr(o, "img_size").items, 1))

\* the angle as it is kept, not conjugated
AngleKept(a) == [shape |-> a.shape, data |-> [n \in DOMAIN a.data |-> a.data[n]]]

\* the entries of the angle conjugated, self.angle as U_adjoint uses it
AngleConj(a) ==
    [shape |-> a.shape, data |-> [n \in DOMAIN a.data |-> CConj(a.data[n])]]

\* BlurFFT.U_adjoint(x)
BlurFFT_U_adjoint(o, t) ==
    LET rotated == Broadcast(rfft2(t, Ortho(t.shape[3] * t.shape[4])),
                             AngleConj(getattr(o, "angle").t), CMul)
    IN  IF ~rotated.ok THEN rotated ELSE Ok(view_as_real(rotated.val))

\* BlurFFT.V(x)
BlurFFT_V(o, P) ==
    irfft2(view_as_complex(P), FromEnd(getattr(o, "img_size").items, 2),
           FromEnd(getattr(o, "img_size").items, 1))

\* A of a decomposable operator: U(mask * V_adjoint(x)), the mask of BlurFFT
\* being the magnitude it keeps in self.params
DecomposablePhysics_A(o, t) ==
    LET scaled == Broadcast(BlurFFT_V_adjoint(o, t), getattr(o, "params").t, PairMul)
    IN  IF ~scaled.ok THEN scaled ELSE BlurFFT_U(o, scaled.val)

\* A_dagger of a decomposable operator: V(U_adjoint(y) / mask)
DecomposablePhysics_A_dagger(o, t) ==
    LET rotated == BlurFFT_U_adjoint(o, t)
        scaled == IF rotated.ok
                  THEN Broadcast(rotated.val, getattr(o, "params").t, PairDiv)
                  ELSE rotated
    IN  IF ~scaled.ok THEN scaled ELSE BlurFFT_V(o, scaled.val)

----------------------------------------------------------------------------
(* The driver of the FFT blur operator *)

\* an image of the declared size (C, H, W) and a kernel of 1 or C channels
InitBlurFFT ==
    /\ pc = "start"
    /\ \E c \in 1..MaxCount, H \in ExactSizes, W \in ExactSizes :
          /\ args = [cls |-> "BlurFFT", img_size |-> <<c, H, W>>]
          /\ x \in {Ramp(<<1, c, H, W>>), Impulse(<<1, c, H, W>>, c * H * W)}
          /\ filter \in {Ramp(s) : s \in PlaneKernelShapes} \cup {Ramp(<<1, c, 1, 2>>)}
    /\ params \in {PyTensor(filter), Parameter(filter)}
    /\ padding = "circular"
    /\ made = Outcome(NoResult)
    /\ self = NoObject
    /\ out = NoResult
    /\ y = NoTensor
    /\ adj = NoResult
    /\ fout = NoResult
    /\ calls = 0
    /\ draw = PyNone
    /\ psf = NoResult
    /\ NoCallMade

ConstructBlurFFT ==
    /\ pc = "start"
    /\ args.cls = "BlurFFT"
    /\ Constructed(BlurFFT_init(args.img_size, params))
    /\ UNCHANGED <<engineVars, args, params, calls, draw, psf, callVars>>

\* y = physics.A(x)
ApplyBlurFFT ==
    /\ pc = "made"
    /\ made.ok
    /\ args.cls = "BlurFFT"
    /\ fout' = DecomposablePhysics_A(self, AsReal(x))
    /\ pc' = "applied"
    /\ UNCHANGED <<x, filter, padding, out, y, adj, objectVars, callVars>>

\* physics.A_dagger(y)
PseudoInverseBlurFFT ==
    /\ pc = "applied"
    /\ args.cls = "BlurFFT"
    /\ fout.ok
    /\ inv' = DecomposablePhysics_A_dagger(self, fout.val)
    /\ pc' = "inverted"
    /\ UNCHANGED <<engineVars, objectVars, rng, log, threads, placed, heap>>

NextBlurFFT == ConstructBlurFFT \/ ApplyBlurFFT \/ PseudoInverseBlurFFT

SpecBlurFFT == InitBlurFFT /\ [][NextBlurFFT]_vars

\* the magnitude of the response is nonzero at every frequency
MagnitudeNonzero ==
    \A n \in DOMAIN getattr(self, "params").t.data :
        getattr(self, "params").t.data[n][1] # Zero

\* C18: for a BlurFFT whose magnitude is nonzero at every frequency,
\* A_dagger(A(x)) = x for the images x of the declared size, A_dagger being the
\* one pass V(U_adjoint(y) / magnitude)
C18_FFTBlurRoundTrip ==
    (pc = "inverted" /\ args.cls = "BlurFFT" /\ MagnitudeNonzero)
    => /\ inv.ok
       /\ inv.val = AsReal(x)

\* a blur with a response of complex phases and of magnitudes that are no
\* rational numbers was applied and inverted
C18_ComplexResponseInverted ==
    /\ pc = "inverted"
    /\ args.cls = "BlurFFT"
    /\ MagnitudeNonzero
    /\ inv.ok
    /\ \E n \in DOMAIN getattr(self, "angle").t.data :
          /\ getattr(self, "angle").t.data[n].im # 0
          /\ getattr(self, "angle").t.data[n].re # 0
          /\ getattr(self, "params").t.data[n][1].rad # 1

\* A(x) of the decomposition is the circular cross-correlation of x with the
\* placed kernel
DecompositionIsCorrelation ==
    (pc = "applied" /\ args.cls = "BlurFFT")
    => /\ fout.ok
       /\ fout.val = AsReal(BlurFFT_A(x, filter).val)

----------------------------------------------------------------------------
(* extend_filter, called on a kernel and on its own result *)

\* the largest kernel dimension extend_filter is given
MaxExtended == 4

\* kernels of distinct nonzero entries, of every batch and channel count and
\* every size
InitExtend ==
    /\ pc = "start"
    /\ filter \in {Ramp(<<b, c, h, w>>) :
                      b \in 1..MaxCount, c \in 1..MaxCount,
                      h \in 1..MaxExtended, w \in 1..MaxExtended}
    /\ x = NoTensor
    /\ padding = "valid"
    /\ out = NoResult
    /\ y = NoTensor
    /\ adj = NoResult
    /\ fout = NoResult
    /\ NoObjectMade
    /\ NoCallMade

\* out = extend_filter(filter)
CallExtendFilter ==
    /\ pc = "start"
    /\ out' = Ok(extend_filter(filter))
    /\ pc' = "extended"
    /\ UNCHANGED <<x, filter, padding, y, adj, fout, objectVars, callVars>>

\* extend_filter(out)
CallExtendFilterAgain ==
    /\ pc = "extended"
    /\ out.ok
    /\ fout' = Ok(extend_filter(out.val))
    /\ pc' = "extended again"
    /\ UNCHANGED <<x, filter, padding, out, y, adj, objectVars, callVars>>

NextExtend == CallExtendFilter \/ CallExtendFilterAgain

SpecExtend == InitExtend /\ [][NextExtend]_vars

\* the result k2 holds the kernel k with its center entry (h div 2, w div 2) at
\* its own center, and zeros around it
CenteredIn(k, k2) ==
    LET h == k.shape[3]
        w == k.shape[4]
        top == k2.shape[3] \div 2 - h \div 2
        left == k2.shape[4] \div 2 - w \div 2
    IN  \A b \in 0..(k2.shape[1] - 1), c \in 0..(k2.shape[2] - 1),
           i \in 0..(k2.shape[3] - 1), j \in 0..(k2.shape[4] - 1) :
           At(k2, b, c, i, j)
           = IF i >= top /\ i < top + h /\ j >= left /\ j < left + w
             THEN At(k, b, c, i - top, j - left)
             ELSE 0

\* the odd size the center-padding rule gives a dimension of size n
OddSize(n) == IF n = 1 THEN 3 ELSE IF n % 2 = 0 THEN n + 1 ELSE n

\* C24: extend_filter returns, for a kernel of size h x w, a kernel of odd
\* dimensions (1 becomes 3, an even n becomes n + 1, an odd n >= 3 stays) that
\* holds the original entries centered and zeros around them, and applied to
\* its own result it returns that result
C24_ExtendFilterCentersOnce ==
    /\ pc # "start"
       => /\ out.ok
          /\ out.val.shape = <<filter.shape[1], filter.shape[2],
                               OddSize(filter.shape[3]), OddSize(filter.shape[4])>>
          /\ out.val.shape[3] % 2 = 1 /\ out.val.shape[4] % 2 = 1
          /\ CenteredIn(filter, out.val)
    /\ pc = "extended again"
       => /\ fout.ok
          /\ fout.val = out.val

\* extend_filter was applied twice to a kernel with a dimension of 1 and an
\* even dimension
C24_ExtendedTwice ==
    /\ pc = "extended again"
    /\ fout.ok
    /\ filter.shape[3] = 1
    /\ filter.shape[4] % 2 = 0
    /\ filter.shape[1] > 1

----------------------------------------------------------------------------
(* Two calls on one operator, their statements interleaved *)

\* height and width of the images of the two calls
SharedSize == 4

\* a tensor a statement holds: a storage of the heap, seen through the stride
\* of the view x[:, :, ::stride, ::stride]
Ref(id, stride) == [id |-> id, stride |-> stride]

NoRef == Ref(<<"none", 0>>, 1)

\* the values seen through a reference
Deref(h, ref) == Strided(h[ref.id], ref.stride)

\* the heap after the storage id was allocated with, or overwritten by, t
Store(h, id, t) == [i \in DOMAIN h \cup {id} |-> IF i = id THEN t ELSE h[i]]

\* the storage of the tensor the caller hands to call t
InputId(t) == <<"input", t>>

\* one canvas for both calls
CanvasIdShared(t) == <<"zeros", 0>>

\* the storage torch.zeros allocates in call t of A_adjoint
CanvasId(t) == <<"zeros", t>>

\* the storage conv or conv_transpose allocates for its result in call t
OutputId(t) == <<"output", t>>

\* the storage of the kernel: the tensor handed to the constructor of a
\* Downsampling, or to both calls of BlindBlur.A
KernelId == <<"kernel", 0>>

\* the storage y.clone() allocates in call t of A_dagger
CloneId(t) == <<"clone", t>>

\* the storage torch.zeros allocates for the kernel w in call t of A_dagger
DeltaId(t) == <<"delta", t>>

\* the two callers' tensors differ in every entry
SharedInput(t, shape) ==
    [shape |-> shape, data |-> [n \in 1..Numel(shape) |-> t * n + (t - 1)]]

\* x[:, :, ::f, ::f] = t written into the canvas: t has to broadcast to the
\* strided view
StridedAssign(canvas, t, f) ==
    LET fits(n, m) == n = m \/ n = 1
    IN  IF /\ Len(t.shape) = 4
           /\ fits(t.shape[1], canvas.shape[1])
           /\ fits(t.shape[2], canvas.shape[2])
           /\ fits(t.shape[3], (canvas.shape[3] + f - 1) \div f)
           /\ fits(t.shape[4], (canvas.shape[4] + f - 1) \div f)
        THEN Ok(Tensor4(canvas.shape[1], canvas.shape[2], canvas.shape[3], canvas.shape[4],
                  LAMBDA b, c, i, j:
                      IF i % f = 0 /\ j % f = 0
                      THEN At(t,
                              IF t.shape[1] = 1 THEN 0 ELSE b,
                              IF t.shape[2] = 1 THEN 0 ELSE c,
                              IF t.shape[3] = 1 THEN 0 ELSE i \div f,
                              IF t.shape[4] = 1 THEN 0 ELSE j \div f)
                      ELSE At(canvas, b, c, i, j)))
        ELSE Raise("RuntimeError")

\* a call of a method that has run no statement yet: arg is the caller's
\* tensor, x and w the tensors the local names x and w are bound to, and
\* overlapped whether a statement of the call ran while the other call was
\* between its first statement and its return
SharedCall(cls, method, t) ==
    [method |-> method,
     at |-> "called",
     arg |-> Ref(InputId(t), 1),
     x |-> IF method = "A" THEN Ref(InputId(t), 1) ELSE NoRef,
     w |-> IF method = "A" /\ cls = "BlindBlur" THEN Ref(KernelId, 1) ELSE NoRef,
     overlapped |-> FALSE,
     res |-> NoResult]

\* the methods called on an operator of the class
SharedMethods(cls) == IF cls = "Downsampling" THEN {"A", "A_adjoint"} ELSE {"A", "A_dagger"}

\* the tensor handed to a method: an image, or for Downsampling.A_adjoint a
\* measurement of the size of the strided view
SharedArgument(method, t, factor) ==
    IF method = "A_adjoint"
    THEN SharedInput(t, <<1, 1, (SharedSize + factor - 1) \div factor,
                                (SharedSize + factor - 1) \div factor>>)
    ELSE SharedInput(t, <<1, 1, SharedSize, SharedSize>>)

\* the operator as its constructor returns it
AsConstructed ==
    IF args.cls = "Downsampling"
    THEN Downsampling_init(args.img_size, params, args.factor, padding)
    ELSE BlindBlur_init(args.kernel_size, padding)

InitShared ==
    /\ pc = "shared"
    /\ padding \in Paddings
    /\ \/ /\ filter \in CustomKernels
          /\ params = Parameter(filter)
          /\ \E f \in Factors :
                args = [cls |-> "Downsampling", img_size |-> <<1, SharedSize, SharedSize>>,
                        factor |-> f]
       \/ /\ filter = NoTensor
          /\ params = PyNone
          /\ \E f \in Factors :
                args = [cls |-> "Downsampling", img_size |-> <<1, SharedSize, SharedSize>>,
                        factor |-> f]
       \/ /\ filter \in CustomKernels
          /\ params = PyNone
          /\ \E k \in {PyInt(3), PyTuple(<<PyInt(3), PyInt(3)>>)} :
                args = [cls |-> "BlindBlur", kernel_size |-> k, factor |-> 1]
    /\ \E m1 \in SharedMethods(args.cls), m2 \in SharedMethods(args.cls) :
          /\ threads = [call |-> <<SharedCall(args.cls, m1, 1), SharedCall(args.cls, m2, 2)>>]
          /\ x = SharedArgument(m1, 1, args.factor)
          /\ y = SharedArgument(m2, 2, args.factor)
    /\ heap = [i \in {InputId(1), InputId(2), KernelId} |->
                 IF i = InputId(1) THEN x ELSE IF i = InputId(2) THEN y ELSE filter]
    /\ AsConstructed.ok
    /\ made = Outcome(AsConstructed)
    /\ self = AsConstructed.val
    /\ out = NoResult
    /\ adj = NoResult
    /\ fout = NoResult
    /\ calls = 0
    /\ draw = PyNone
    /\ psf = NoResult
    /\ inv = NoResult
    /\ rng = PyNone
    /\ log = <<>>
    /\ placed = NoResult

\* what a statement of call t leaves: the call's record, and the heap
Stepped2(t, call, h) ==
    /\ threads' = [threads EXCEPT
                     !.call[t] = [call EXCEPT
                                    !.overlapped =
                                        @ \/ threads.call[3 - t].at \notin {"called", "done"}]]
    /\ heap' = h
    /\ UNCHANGED <<pc, engineVars, objectVars, inv, rng, log, placed>>

\* the statement raised: the call is over
Raised(call, err) == [call EXCEPT !.at = "done", !.res = Raise(err)]

\* Downsampling.A, lines 171-172: if self.params is not None:
\* x = conv(x, self.params, self.padding); BlindBlur.A, lines 408-410:
\* conv(x, w, self.padding) for x = s[0] and w = s[1]
StepConv(t) ==
    LET call == threads.call[t]
        blind == self.cls = "BlindBlur"
        kernel == IF blind THEN Deref(heap, call.w) ELSE getattr(self, "params").t
    IN  /\ call.method = "A"
        /\ call.at = "called"
        /\ IF ~blind /\ getattr(self, "params").kind = "NoneType"
           THEN Stepped2(t, [call EXCEPT !.at = "blurred"], heap)
           ELSE LET r == conv(Deref(heap, call.x), kernel, getattr(self, "padding").s)
                IN  IF r.ok
                    THEN Stepped2(t, [call EXCEPT !.at = IF blind THEN "finished" ELSE "blurred",
                                                  !.x = Ref(OutputId(t), 1)],
                                  Store(heap, OutputId(t), r.val))
                    ELSE Stepped2(t, Raised(call, r.err), heap)

\* Downsampling.A, line 173: x = x[:, :, ::self.factor, ::self.factor], a view of x
StepStride(t) ==
    LET call == threads.call[t]
    IN  /\ call.method = "A"
        /\ call.at = "blurred"
        /\ Stepped2(t, [call EXCEPT !.at = "finished",
                                    !.x = Ref(call.x.id,
                                              call.x.stride * getattr(self, "factor").n)],
                    heap)

\* Downsampling.A_adjoint, line 177: x = torch.zeros((y.shape[0],) + self.imsize)
StepZeros(t) ==
    LET call == threads.call[t]
        shape == <<Deref(heap, call.arg).shape[1]>> \o getattr(self, "imsize").items
    IN  /\ call.method = "A_adjoint"
        /\ call.at = "called"
        /\ Stepped2(t, [call EXCEPT !.at = "zeros", !.x = Ref(CanvasId(t), 1)],
                    Store(heap, CanvasId(t),
                          [shape |-> shape, data |-> [n \in 1..Numel(shape) |-> 0]]))

\* Downsampling.A_adjoint, line 178: x[:, :, ::self.factor, ::self.factor] = y,
\* written in place
StepAssign(t) ==
    LET call == threads.call[t]
        r == StridedAssign(heap[call.x.id], Deref(heap, call.arg), getattr(self, "factor").n)
    IN  /\ call.method = "A_adjoint"
        /\ call.at = "zeros"
        /\ IF r.ok
           THEN Stepped2(t, [call EXCEPT !.at = "assigned"], Store(heap, call.x.id, r.val))
           ELSE Stepped2(t, Raised(call, r.err), heap)

\* Downsampling.A_adjoint, lines 179-180: if self.params is not None:
\* x = conv_transpose(x, self.params, self.padding)
StepConvTranspose(t) ==
    LET call == threads.call[t]
        p == getattr(self, "params")
    IN  /\ call.method = "A_adjoint"
        /\ call.at = "assigned"
        /\ IF p.kind = "NoneType"
           THEN Stepped2(t, [call EXCEPT !.at = "finished"], heap)
           ELSE LET r == conv_transpose(Deref(heap, call.x), p.t, getattr(self, "padding").s)
                IN  IF r.ok
                    THEN Stepped2(t, [call EXCEPT !.at = "finished",
                                                  !.x = Ref(OutputId(t), 1)],
                                  Store(heap, OutputId(t), r.val))
                    ELSE Stepped2(t, Raised(call, r.err), heap)

\* BlindBlur.A_dagger, line 425: x = y.clone()
StepClone(t) ==
    LET call == threads.call[t]
    IN  /\ call.method = "A_dagger"
        /\ call.at = "called"
        /\ Stepped2(t, [call EXCEPT !.at = "cloned", !.x = Ref(CloneId(t), 1)],
                    Store(heap, CloneId(t), Deref(heap, call.arg)))

\* BlindBlur.A_dagger, lines 426-429: mid_h = int(self.kernel_size[0] / 2),
\* mid_w likewise, and w = torch.zeros((y.shape[0], 1) + the kernel size)
StepKernelZeros(t) ==
    LET call == threads.call[t]
        ks == getattr(self, "kernel_size").items
        shape == <<Deref(heap, call.arg).shape[1], 1, ks[1].n, ks[2].n>>
    IN  /\ call.method = "A_dagger"
        /\ call.at = "cloned"
        /\ IF ks[1].kind # "int" \/ ks[2].kind # "int"
           THEN Stepped2(t, Raised(call, "TypeError"), heap)
           ELSE Stepped2(t, [call EXCEPT !.at = "kernel zeros", !.w = Ref(DeltaId(t), 1)],
                         Store(heap, DeltaId(t),
                               [shape |-> shape, data |-> [n \in 1..Numel(shape) |-> 0]]))

\* BlindBlur.A_dagger, line 430: w[:, :, mid_h, mid_w] = 1.0, written in place
StepKernelOne(t) ==
    LET call == threads.call[t]
        ks == getattr(self, "kernel_size").items
        w == heap[call.w.id]
    IN  /\ call.method = "A_dagger"
        /\ call.at = "kernel zeros"
        /\ Stepped2(t, [call EXCEPT !.at = "finished"],
                    Store(heap, call.w.id,
                          Tensor4(w.shape[1], w.shape[2], w.shape[3], w.shape[4],
                                  LAMBDA b, c, i, j:
                                      IF i = ks[1].n \div 2 /\ j = ks[2].n \div 2
                                      THEN 1 ELSE At(w, b, c, i, j))))

\* return x, of Downsampling.A (line 174) and A_adjoint (line 181) and of
\* BlindBlur.A (line 410); return TensorList([x, w]), of A_dagger (line 432)
StepReturnTensor(t) ==
    LET call == threads.call[t]
    IN  /\ call.at = "finished"
        /\ Stepped2(t, [call EXCEPT !.at = "done", !.res = Ok(call.x)], heap)

NextShared ==
    \E t \in 1..2 :
        \/ StepConv(t)
        \/ StepStride(t)
        \/ StepZeros(t)
        \/ StepAssign(t)
        \/ StepConvTranspose(t)
        \/ StepClone(t)
        \/ StepKernelZeros(t)
        \/ StepKernelOne(t)
        \/ StepReturnTensor(t)

SpecShared == InitShared /\ [][NextShared]_vars

\* what call t returned: the values of the tensors, or the exception
Returned(t) ==
    LET call == threads.call[t]
    IN  IF ~call.res.ok THEN call.res
        ELSE IF call.method = "A_dagger"
        THEN Ok(TensorList(Deref(heap, call.res.val), Deref(heap, call.w)))
        ELSE Ok(Deref(heap, call.res.val))

\* what the method of call t returns when no other call runs
RunAlone(t) ==
    LET o == AsConstructed.val
        arg == IF t = 1 THEN x ELSE y
        method == threads.call[t].method
    IN  IF args.cls = "Downsampling"
        THEN IF method = "A" THEN Downsampling_A(o, arg) ELSE Downsampling_A_adjoint(o, arg)
        ELSE IF method = "A" THEN BlindBlur_A(o, <<arg, filter>>) ELSE BlindBlur_A_dagger(o, arg)

====
